---------------------------- MODULE Spec2Model ----------------------------
(***************************************************************************)
(* A model of the Facebook MCP gateway worker: the Graph API client        *)
(* (src/fb/graph.ts), the tool dispatcher (src/mcp.ts), the credential     *)
(* helpers (src/tools/helpers.ts) and the KV-backed token storage          *)
(* (src/storage.ts).                                                       *)
(*                                                                         *)
(* The specifications of the module:                                       *)
(*   SpecClassify  extractGraphError applied to bounded inputs             *)
(*   SpecGraph     one callGraph invocation, step by step                  *)
(*   Spec          the dispatcher with every tool over the KV store        *)
(*   SpecTokens    credentials over time: authorization, expiry, revoke    *)
(*   SpecExchange  exchangeCodeForToken applied to bounded inputs          *)
(*   SpecEnsure    ensurePageAccessToken applied to bounded inputs         *)
(*   SpecCallback  concurrent /oauth/callback requests, one step per await *)
(*   SpecSession   one SSE session object under any order of its calls     *)
(*   SpecSse       the worker's two SSE endpoints and their admission      *)
(*   SpecDispatchFn dispatchTool over every handler outcome, in pairs      *)
(*   SpecEnvelope  POST /mcp from the parsed body to the response          *)
(*   SpecSanitize  the logger's redaction of details, in pairs             *)
(*   SpecLimiter   the rate limiter under any sequence of call times       *)
(*   SpecSettings  the settings cache under interleaved requests           *)
(*   SpecAdmin     the admin-mode routes for every header                  *)
(*   SpecPkce      the PKCE verifier and challenge encoding                *)
(*   SpecSetup     sseResponse with handlers that return, wait or throw     *)
(*   SpecOAuth     /oauth/start and /oauth/callback over an expiring store  *)
(*   SpecLogs      the log buffer, its listeners and /api/logs/stream       *)
(*   SpecGraphLog  the log records of one callGraph invocation              *)
(*   SpecDispatchLog  the log records of one dispatchTool invocation        *)
(*   SpecFetch     the fetch handler under KV failures                      *)
(***************************************************************************)
EXTENDS Integers, Sequences, FiniteSets, TLC

VARIABLES
    \* ---- SpecClassify
    c_status,       \* HTTP status handed to extractGraphError
    c_body,         \* parsed body handed to extractGraphError
    c_result,       \* the GraphApiError it built, or NotClassified
    \* ---- SpecGraph: the locals of one callGraph invocation
    g_pc,           \* idle | start | fetching | delay | returned | thrown
    attempt,        \* the loop counter of graph.ts:69
    timers,         \* attempts whose setTimeout is still pending
    fetches,        \* number of fetch() calls made by this invocation
    outcomes,       \* what each attempt observed, in order
    delays,         \* the argument of each delay() awaited, in order
    lastError,      \* the local lastError
    g_result,       \* what the invocation returned or threw
    \* ---- Spec, SpecTokens: the worker over its KV store
    now,            \* Date.now(), in ms
    envHasSecret,   \* whether env.FACEBOOK_APP_SECRET is set
    kvActiveUser,   \* key settings:current_user
    kvUserToken,    \* keys user:<id>:access_token
    kvPageToken,    \* keys page:<id>:access_token
    kvOAuth,        \* keys oauth:<state>
    resp,           \* what the last dispatchTool call returned (or threw)
    obs,            \* what the last handler did, for the properties
    \* ---- SpecExchange
    x_args,         \* the inputs of one exchangeCodeForToken call
    x_result,       \* what it returned or threw
    \* ---- SpecEnsure
    e_args,         \* the inputs of one ensurePageAccessToken call
    e_result,       \* what it returned or threw, its calls, the store after
    \* ---- SpecCallback: /oauth/callback requests in flight
    cb_pc,          \* per request: where its handler is
    cb_stored,      \* per request: the local `stored`
    \* ---- SpecSession: one session made by sseResponse
    session,        \* closed, the frames enqueued, cleanup and onClose runs
    s_call,         \* the last call made on the session
    \* ---- SpecSse: the worker's SSE endpoints
    activeMcpStreams,  \* the module-level counter of part_004:44
    streams,        \* every session created so far, by connection id
    sse_obs,        \* what the last SSE request was answered
    sse_now,        \* the worker's clock as the SSE timers see it, ms
    \* ---- the specifications of one function call
    f_args,         \* the inputs of the call
    f_result,       \* what it returned or threw
    \* ---- SpecLimiter
    rl,             \* the limiter's hits map, the clock, the last check
    \* ---- SpecSettings
    sc,             \* the settings cache, the KV settings, requests in flight
    \* ---- SpecLogs: the logger's module state, logger.ts
    logBuffer,      \* the entries kept, oldest first
    listeners,      \* the subscribed listeners, by connection id
    \* ---- SpecOAuth
    issued          \* what /oauth/start stored and put in the URL, by state

classifyVars == <<c_status, c_body, c_result>>
graphVars == <<g_pc, attempt, timers, fetches, outcomes, delays, lastError, g_result>>
kvVars == <<kvActiveUser, kvUserToken, kvPageToken, kvOAuth>>
sysVars == <<now, envHasSecret, kvActiveUser, kvUserToken, kvPageToken, kvOAuth, resp, obs>>
exchangeVars == <<x_args, x_result>>
ensureVars == <<e_args, e_result>>
callbackVars == <<cb_pc, cb_stored>>
sessionVars == <<session, s_call>>
sseVars == <<activeMcpStreams, streams, sse_obs, sse_now>>
callVars == <<f_args, f_result>>
\* the variables of the specifications after SpecSse
laterVars == <<f_args, f_result, rl, sc, logBuffer, listeners, issued>>
\* the variables of SpecLogs and SpecOAuth
lastVars == <<logBuffer, listeners, issued>>
\* the variables of the specifications other than the first four
restVars == <<x_args, x_result, e_args, e_result, cb_pc, cb_stored, session, s_call,
              activeMcpStreams, streams, sse_obs, sse_now, f_args, f_result, rl, sc,
              logBuffer, listeners, issued>>
vars == <<c_status, c_body, c_result,
          g_pc, attempt, timers, fetches, outcomes, delays, lastError, g_result,
          now, envHasSecret, kvActiveUser, kvUserToken, kvPageToken, kvOAuth, resp, obs,
          x_args, x_result, e_args, e_result, cb_pc, cb_stored, session, s_call,
          activeMcpStreams, streams, sse_obs, sse_now, f_args, f_result, rl, sc,
          logBuffer, listeners, issued>>

---------------------------------------------------------------------------
(* Program constants of src/fb/graph.ts *)

MAX_RETRIES_Raised == 3 + 1

\* graph.ts:14
MAX_RETRIES == 3

\* the `undefined` of the source
Undefined == "undefined"

(***************************************************************************)
(* Upstream responses.  A parsed body is [error, data]: `error` is NoErr   *)
(* when the body has no error member, else the Graph error object; `data`  *)
(* stands for the rest of the JSON document.  is_transient = FALSE also    *)
(* stands for an absent flag (both are falsy in graph.ts:145).             *)
(***************************************************************************)
NoErr == [present |-> FALSE]

GraphErr(transient, code) ==
    [present |-> TRUE, is_transient |-> transient, code |-> code,
     message |-> "upstream says no"]

ErrBody(e) == [error |-> e, data |-> "none"]

OkBody(d) == [error |-> NoErr, data |-> d]

HttpOutcome(status, body) == [kind |-> "http", status |-> status, body |-> body]

\* fetch rejected with an AbortError: the attempt's timer fired (graph.ts:71,118)
TimeoutOutcome == [kind |-> "timeout"]

\* fetch rejected otherwise, or the body is not JSON (graph.ts:75,84): an
\* exception that is neither a GraphApiError nor an AbortError
TransportOutcome == [kind |-> "transport"]

\* Response.ok
ResponseOk(status) == status >= 200 /\ status <= 299

GraphApiError(message, status, body, retryable) ==
    [kind |-> "GraphApiError", message |-> message, status |-> status,
     body |-> body, retryable |-> retryable]

PlainError(message) == [kind |-> "Error", message |-> message]

extractGraphError_DropsCode4(status, body) ==
    LET err == body.error
        retryable == \/ (err.present /\ err.is_transient)
                     \/ status >= 500
                     \/ (err.present /\ err.code = 1)
                     \/ (err.present /\ err.code = 2)
    IN  GraphApiError(IF err.present THEN err.message ELSE "Graph API error",
                      status, body, retryable)

\* graph.ts:143-148
extractGraphError(status, body) ==
    LET err == body.error
        retryable == \/ (err.present /\ err.is_transient)
                     \/ status >= 500
                     \/ (err.present /\ err.code = 1)
                     \/ (err.present /\ err.code = 2)
                     \/ (err.present /\ err.code = 4)
    IN  GraphApiError(IF err.present THEN err.message ELSE "Graph API error",
                      status, body, retryable)

---------------------------------------------------------------------------
(* SpecClassify: extractGraphError on bounded inputs *)

NotClassified == [kind |-> "none"]

\* inputs: non-2xx statuses around the 500 boundary, codes around {1, 2, 4}
ClassifyStatuses == {400, 401, 404, 429, 499, 500, 502, 503}

ClassifyCodes == {0, 1, 2, 3, 4, 5, 190}

ClassifyBodies ==
    {ErrBody(NoErr)} \cup
    {ErrBody(GraphErr(t, c)) : t \in BOOLEAN, c \in ClassifyCodes}

ParkedClassify ==
    /\ c_status = 400
    /\ c_body = ErrBody(NoErr)
    /\ c_result = NotClassified

ParkedGraph ==
    /\ g_pc = "idle"
    /\ attempt = 1
    /\ timers = {}
    /\ fetches = 0
    /\ outcomes = <<>>
    /\ delays = <<>>
    /\ lastError = NotClassified
    /\ g_result = NotClassified

\* the worker before any request: an empty store
ParkedSys ==
    /\ now = 0
    /\ envHasSecret = TRUE
    /\ kvActiveUser = "none"
    /\ kvUserToken = [u \in {"uA", "uB"} |-> [present |-> FALSE]]
    /\ kvPageToken = [p \in {"p1", "p2"} |-> [present |-> FALSE]]
    /\ kvOAuth = [x \in {"s1"} |-> [present |-> FALSE]]
    /\ resp = [kind |-> "none"]
    /\ obs = [kind |-> "none"]

ParkedExchange == x_args = [kind |-> "none"] /\ x_result = [kind |-> "none"]

ParkedEnsure == e_args = [kind |-> "none"] /\ e_result = [kind |-> "none"]

ParkedCallback == cb_pc = <<>> /\ cb_stored = <<>>

ParkedSession == session = [kind |-> "none"] /\ s_call = [kind |-> "none"]

ParkedSse ==
    activeMcpStreams = 0 /\ streams = <<>> /\ sse_obs = [kind |-> "none"] /\ sse_now = 0

ParkedCall == f_args = [kind |-> "none"] /\ f_result = [kind |-> "none"]

ParkedLimiter == rl = [kind |-> "none"]

ParkedSettings == sc = [kind |-> "none"]

ParkedLogger == logBuffer = <<>> /\ listeners = {}

ParkedIssued == issued = <<>>

ParkedLast == ParkedLogger /\ ParkedIssued

ParkedLater == ParkedCall /\ ParkedLimiter /\ ParkedSettings /\ ParkedLast

ParkedRest ==
    /\ ParkedExchange /\ ParkedEnsure /\ ParkedCallback /\ ParkedSession /\ ParkedSse
    /\ ParkedLater

InitClassify ==
    /\ c_status \in ClassifyStatuses
    /\ c_body \in ClassifyBodies
    /\ c_result = NotClassified
    /\ ParkedGraph
    /\ ParkedSys
    /\ ParkedRest

Classify ==
    /\ c_result = NotClassified
    /\ c_result' = extractGraphError(c_status, c_body)
    /\ UNCHANGED <<c_status, c_body>>
    /\ UNCHANGED graphVars
    /\ UNCHANGED sysVars
    /\ UNCHANGED restVars

ClassifyNext ==
    /\ c_result # NotClassified
    /\ c_status' \in ClassifyStatuses
    /\ c_body' \in ClassifyBodies
    /\ c_result' = NotClassified
    /\ UNCHANGED graphVars
    /\ UNCHANGED sysVars
    /\ UNCHANGED restVars

NextClassify == Classify \/ ClassifyNext

SpecClassify == InitClassify /\ [][NextClassify]_vars


---------------------------------------------------------------------------
(* callGraph, graph.ts:38-141: the decision taken when one attempt ends *)

Backoff_FromBase(k) == 2 ^ (k - 1) * 200

\* graph.ts:96,113,126: the argument of delay() after attempt k
Backoff(k) == 2 ^ k * 200

\* what the end of an attempt does to the loop:
\*   action     return | retry | throw
\*   value      the body returned or the error thrown
\*   setsLast   whether lastError is assigned, and to what
Step(action, value, setsLast, last) ==
    [action |-> action, value |-> value, setsLast |-> setsLast, last |-> last]

\* graph.ts:110-117: a GraphApiError caught by the loop's catch
CatchGraphApiError(k, error) ==
    IF error.retryable /\ k < MAX_RETRIES
    THEN Step("retry", error, TRUE, error)
    ELSE Step("throw", error, TRUE, error)

\* graph.ts:119: the error built for an aborted attempt
TimeoutError(k) ==
    GraphApiError("Graph API request timed out", 504, Undefined, k < MAX_RETRIES)

\* graph.ts:118-130: an AbortError caught by the loop's catch
CatchAbort(k) ==
    LET graphError == TimeoutError(k)
    IN  IF graphError.retryable /\ k < MAX_RETRIES
        THEN Step("retry", graphError, TRUE, graphError)
        ELSE Step("throw", graphError, TRUE, graphError)

HttpFailure_RetriesTerminal(k, status, body) ==
    LET graphError == extractGraphError(status, body)
    IN  IF k < MAX_RETRIES
        THEN Step("retry", graphError, FALSE, NotClassified)
        ELSE CatchGraphApiError(k, graphError)

\* graph.ts:86-99: a non-2xx response
HttpFailure(k, status, body) ==
    LET graphError == extractGraphError(status, body)
    IN  IF graphError.retryable /\ k < MAX_RETRIES
        THEN Step("retry", graphError, FALSE, NotClassified)
        ELSE CatchGraphApiError(k, graphError)

\* graph.ts:74-134: attempt k ended with outcome o
AttemptStep(k, o) ==
    CASE o.kind = "http" ->
             IF ~ResponseOk(o.status)
             THEN HttpFailure(k, o.status, o.body)
             ELSE Step("return", o.body, FALSE, NotClassified)
      [] o.kind = "timeout" -> CatchAbort(k)
      [] OTHER -> Step("throw", PlainError("fetch failed"), FALSE, NotClassified)

\* graph.ts:137-140: the statements after the loop
AfterLoop(last) ==
    IF last # NotClassified THEN last ELSE PlainError("Unexpected Graph API failure")

---------------------------------------------------------------------------
(* SpecGraph: one callGraph invocation, one step per await *)

GraphStatuses == {200, 499, 500}

GraphCodes == {1, 3, 4}

GraphDatas == {"d1", "d2"}

GraphOutcomes ==
    {HttpOutcome(200, OkBody(d)) : d \in GraphDatas} \cup
    {HttpOutcome(s, ErrBody(NoErr)) : s \in GraphStatuses \ {200}} \cup
    {HttpOutcome(s, ErrBody(GraphErr(t, c))) :
        s \in GraphStatuses \ {200}, t \in BOOLEAN, c \in GraphCodes} \cup
    {TimeoutOutcome, TransportOutcome}

\* a caller enters callGraph (graph.ts:38-67)
CallGraph ==
    /\ g_pc \in {"idle", "returned", "thrown"}
    /\ g_pc' = "start"
    /\ attempt' = 1
    /\ timers' = {}
    /\ fetches' = 0
    /\ outcomes' = <<>>
    /\ delays' = <<>>
    /\ lastError' = NotClassified
    /\ g_result' = NotClassified
    /\ UNCHANGED classifyVars
    /\ UNCHANGED sysVars
    /\ UNCHANGED restVars

\* graph.ts:69-80: the loop body starts: arm the timer, call fetch
StartAttempt ==
    /\ g_pc = "start"
    /\ attempt <= MAX_RETRIES
    /\ timers' = timers \cup {attempt}
    /\ fetches' = fetches + 1
    /\ g_pc' = "fetching"
    /\ UNCHANGED <<attempt, outcomes, delays, lastError, g_result>>
    /\ UNCHANGED classifyVars
    /\ UNCHANGED sysVars
    /\ UNCHANGED restVars

ClearTimeout_Forgets(pending, k) == pending

\* graph.ts:132-134: finally { clearTimeout(timeout) }
ClearTimeout(pending, k) == pending \ {k}

\* graph.ts:75-131: the awaited fetch settles; the attempt returns, throws, or
\* awaits delay() inside the try block (its finally has not run yet)
AttemptEnds(o) ==
    /\ g_pc = "fetching"
    /\ LET st == AttemptStep(attempt, o)
           \* an abort means this attempt's timer has fired
           pending == IF o.kind = "timeout" THEN timers \ {attempt} ELSE timers
       IN  /\ outcomes' = Append(outcomes, o)
           /\ lastError' = IF st.setsLast THEN st.last ELSE lastError
           /\ CASE st.action = "retry" ->
                     /\ g_pc' = "delay"
                     /\ delays' = Append(delays, Backoff(attempt))
                     /\ timers' = pending
                     /\ g_result' = g_result
                [] st.action = "return" ->
                     /\ g_pc' = "returned"
                     /\ g_result' = [kind |-> "return", value |-> st.value]
                     /\ timers' = ClearTimeout(pending, attempt)
                     /\ delays' = delays
                [] OTHER ->
                     /\ g_pc' = "thrown"
                     /\ g_result' = [kind |-> "throw", value |-> st.value]
                     /\ timers' = ClearTimeout(pending, attempt)
                     /\ delays' = delays
    /\ UNCHANGED <<attempt, fetches>>
    /\ UNCHANGED classifyVars
    /\ UNCHANGED sysVars
    /\ UNCHANGED restVars

\* graph.ts:71: the attempt's timer fires while delay() is awaited; the
\* request it would abort has already completed
TimerFiresInDelay ==
    /\ g_pc = "delay"
    /\ attempt \in timers
    /\ timers' = timers \ {attempt}
    /\ UNCHANGED <<g_pc, attempt, fetches, outcomes, delays, lastError, g_result>>
    /\ UNCHANGED classifyVars
    /\ UNCHANGED sysVars
    /\ UNCHANGED restVars

\* graph.ts:97,114,127 and 132-140: delay() resolves, `continue` runs the
\* finally block and the loop increment; past the last attempt the
\* statements after the loop throw
DelayEnds ==
    /\ g_pc = "delay"
    /\ timers' = ClearTimeout(timers, attempt)
    /\ attempt' = attempt + 1
    /\ IF attempt + 1 <= MAX_RETRIES
       THEN /\ g_pc' = "start"
            /\ g_result' = g_result
       ELSE /\ g_pc' = "thrown"
            /\ g_result' = [kind |-> "throw", value |-> AfterLoop(lastError)]
    /\ UNCHANGED <<fetches, outcomes, delays, lastError>>
    /\ UNCHANGED classifyVars
    /\ UNCHANGED sysVars
    /\ UNCHANGED restVars

InitGraph == ParkedClassify /\ ParkedGraph /\ ParkedSys /\ ParkedRest

NextGraph ==
    \/ CallGraph
    \/ StartAttempt
    \/ \E o \in GraphOutcomes : AttemptEnds(o)
    \/ TimerFiresInDelay
    \/ DelayEnds

SpecGraph == InitGraph /\ [][NextGraph]_vars

---------------------------------------------------------------------------
(* callGraph run to completion against a scripted upstream *)

Return(v) == [kind |-> "return", value |-> v]

Throw(e) == [kind |-> "throw", value |-> e]

\* graph.ts:69-140 as one function of the outcome of each attempt
RECURSIVE RunGraphFrom(_, _, _)
RunGraphFrom(k, script, last) ==
    LET st == AttemptStep(k, script[k])
        newLast == IF st.setsLast THEN st.last ELSE last
    IN  IF st.action = "retry"
        THEN IF k + 1 <= MAX_RETRIES
             THEN RunGraphFrom(k + 1, script, newLast)
             ELSE [kind |-> "throw", value |-> AfterLoop(newLast), attempts |-> k]
        ELSE [kind |-> st.action, value |-> st.value, attempts |-> k]

\* a script says how each attempt ends; a 2xx attempt carries the document
\* the endpoint serves for this path and token
callGraph(path, script, data) ==
    LET played == [i \in DOMAIN script |->
                      IF script[i].kind = "http" /\ ResponseOk(script[i].status)
                      THEN HttpOutcome(200, OkBody(data))
                      ELSE script[i]]
        r == RunGraphFrom(1, played, NotClassified)
    IN  [path |-> path, kind |-> r.kind, value |-> r.value, attempts |-> r.attempts,
         script |-> script]

Ok200 == HttpOutcome(200, OkBody("document"))

H500 == HttpOutcome(500, ErrBody(NoErr))

H400 == HttpOutcome(400, ErrBody(GraphErr(FALSE, 190)))

\* upstream behaviours for one callGraph invocation
SysScripts ==
    { <<Ok200, Ok200, Ok200>>,
      <<H500, H500, Ok200>>,
      <<H500, H500, H500>>,
      <<TimeoutOutcome, TimeoutOutcome, TimeoutOutcome>>,
      <<H400, Ok200, Ok200>>,
      <<TransportOutcome, Ok200, Ok200>> }

\* upstream behaviours for the calls a handler makes after the first
FollowScripts ==
    { <<Ok200, Ok200, Ok200>>,
      <<H500, H500, H500>>,
      <<H400, Ok200, Ok200>> }

---------------------------------------------------------------------------
(* The KV store (env.TOKENS_KV) and the records kept in it, storage.ts *)

\* `undefined` in a numeric field
NoNumber == 0 - 1

\* JavaScript truthiness of an optional number
Truthy(n) == n # NoNumber /\ n # 0

Users == {"uA", "uB"}

Pages == {"p1", "p2"}

NoUser == "none"

\* what /me/accounts lists for each identity
ManagedPages(u) == IF u = "uA" THEN {"p1"} ELSE {"p2"}

NoToken == [kind |-> "none"]

UserTok(u, k) == [kind |-> k, user |-> u]

PageTok(u, p) == [kind |-> "page", user |-> u, page |-> p]

NoEntry == [present |-> FALSE]

Entry(value, expiration) ==
    [present |-> TRUE, value |-> value, expiration |-> expiration]

\* KVNamespace.put with { expiration, expirationTtl } at time t (ms)
KvPut(value, expiration, expirationTtl, t) ==
    Entry(value,
          IF expiration # NoNumber THEN expiration
          ELSE IF expirationTtl # NoNumber THEN (t \div 1000) + expirationTtl
          ELSE NoNumber)

\* types.ts UserTokenRecord (obtainedAt and userName are never read back)
UserTokenRecord(accessToken, tokenType, expiresAt, userId) ==
    [accessToken |-> accessToken, tokenType |-> tokenType,
     expiresAt |-> expiresAt, userId |-> userId]

\* types.ts PageTokenRecord
PageTokenRecord(pageId, accessToken, expiresAt) ==
    [pageId |-> pageId, accessToken |-> accessToken, expiresAt |-> expiresAt]

\* storage.ts:41-46
saveUserToken(userTokens, userId, record, t) ==
    [userTokens EXCEPT ![userId] =
        KvPut(record,
              IF Truthy(record.expiresAt) THEN record.expiresAt ELSE NoNumber,
              NoNumber, t)]

\* storage.ts:57-63
savePageToken(pageTokens, record, t) ==
    [pageTokens EXCEPT ![record.pageId] =
        KvPut(record,
              IF Truthy(record.expiresAt) THEN record.expiresAt ELSE NoNumber,
              IF Truthy(record.expiresAt) THEN NoNumber ELSE 24 * 60 * 60,
              t)]

---------------------------------------------------------------------------
(* Credential helpers, tools/helpers.ts *)

ToolError(code, message, details) ==
    [kind |-> "ToolError", code |-> code, message |-> message, details |-> details]

requireActiveUserToken_IgnoresExpiry(active, userTokens, t) ==
    IF active = NoUser
    THEN Throw(ToolError("auth_required",
               "No Facebook user is linked. Sign in using the dashboard.", Undefined))
    ELSE LET token == userTokens[active]
         IN  IF ~token.present \/ token.value.accessToken = NoToken
             THEN Throw(ToolError("auth_required",
                        "Facebook access token is missing. Re-authenticate via the dashboard.",
                        Undefined))
             ELSE Return(token.value)

\* helpers.ts:7-20
requireActiveUserToken(active, userTokens, t) ==
    IF active = NoUser
    THEN Throw(ToolError("auth_required",
               "No Facebook user is linked. Sign in using the dashboard.", Undefined))
    ELSE LET token == userTokens[active]
         IN  IF ~token.present \/ token.value.accessToken = NoToken
             THEN Throw(ToolError("auth_required",
                        "Facebook access token is missing. Re-authenticate via the dashboard.",
                        Undefined))
             ELSE IF Truthy(token.value.expiresAt) /\ token.value.expiresAt * 1000 < t
             THEN Throw(ToolError("auth_expired",
                        "Facebook access token has expired. Please sign in again.",
                        Undefined))
             ELSE Return(token.value)

\* the documents the Graph API serves
MeDocument(accessToken) == [id |-> accessToken.user]

AccountsDocument(accessToken) ==
    {[id |-> p, access_token |-> PageTok(accessToken.user, p)] :
        p \in ManagedPages(accessToken.user)}

\* what a helper or handler hands back: its result, the upstream calls it
\* made in order, and the page-token keys of the store afterwards
Ran(result, calls, pageTokens) ==
    [result |-> result, calls |-> calls, pageTokens |-> pageTokens]

\* helpers.ts:31-45: the page list `g` has been fetched (graph.ts:154-171);
\* find the page in it and store its token
ensureFromList(pageTokens, pageId, t, g) ==
    IF g.kind = "throw"
    THEN Ran(Throw(g.value), <<g>>, pageTokens)
    ELSE LET found == {pg \in g.value.data : pg.id = pageId}
         IN  IF found = {}
             THEN Ran(Throw(ToolError("not_found",
                      "The requested Page is not managed by the authorized user.",
                      Undefined)), <<g>>, pageTokens)
             ELSE LET page == CHOOSE pg \in found : TRUE
                      record == PageTokenRecord(page.id, page.access_token, NoNumber)
                  IN  Ran(Return(record), <<g>>, savePageToken(pageTokens, record, t))

ensurePageAccessToken_NoMargin(pageTokens, userToken, pageId, script, t) ==
    LET cached == pageTokens[pageId]
    IN  IF /\ cached.present
           /\ \/ ~Truthy(cached.value.expiresAt)
              \/ cached.value.expiresAt * 1000 > t
        THEN Ran(Return(cached.value), <<>>, pageTokens)
        ELSE ensureFromList(pageTokens, pageId, t,
                            callGraph("/me/accounts", script,
                                      AccountsDocument(userToken.accessToken)))

\* helpers.ts:22-46
ensurePageAccessToken(pageTokens, userToken, pageId, script, t) ==
    LET cached == pageTokens[pageId]
    IN  IF /\ cached.present
           /\ \/ ~Truthy(cached.value.expiresAt)
              \/ cached.value.expiresAt * 1000 > t + 60000
        THEN Ran(Return(cached.value), <<>>, pageTokens)
        ELSE ensureFromList(pageTokens, pageId, t,
                            callGraph("/me/accounts", script,
                                      AccountsDocument(userToken.accessToken)))

---------------------------------------------------------------------------
(* Tool parameters: JSON values as far as the handlers look at them *)

U == [t |-> "undefined"]

Num == [t |-> "number"]

Str(x) == [t |-> "string", s |-> x]

Obj(fields) == [t |-> "object", f |-> fields]

Blank == "   "

LongMessage == "<2001 characters>"

GoodUrl == "https://example.com/a.png"

BadUrl == "ftp://example.com/a.png"

\* String.prototype.trim on the strings used here
Trim(x) == IF x = Blank THEN "" ELSE x

\* String.prototype.length, as far as the 2000 limit can tell
StrLen(x) == IF x = LongMessage THEN 2001 ELSE IF x = "" THEN 0 ELSE 5

\* part_002:159-174: assertString; the result is U or a non-empty string
assertString(value, field, required) ==
    IF value.t = "undefined"
    THEN IF required
         THEN Throw(ToolError("invalid_params", <<field, "is required.">>, Undefined))
         ELSE Return(U)
    ELSE IF value.t # "string"
    THEN Throw(ToolError("invalid_params", <<field, "must be a string.">>, Undefined))
    ELSE LET trimmed == Trim(value.s)
         IN  IF trimmed = "" /\ required
             THEN Throw(ToolError("invalid_params", <<field, "cannot be empty.">>, Undefined))
             ELSE Return(IF trimmed = "" THEN U ELSE Str(trimmed))

\* part_002:176-186: validateUrl
validateUrl(value, field) ==
    IF value = GoodUrl
    THEN Return(Str(value))
    ELSE Throw(ToolError("invalid_params", <<field, "must be a valid URL.">>, Undefined))

---------------------------------------------------------------------------
(* Tool handlers *)

NotCalled == [kind |-> "not_called"]

\* what tool.run did: its result, its upstream calls, the page-token keys
\* afterwards, and what the two credential helpers returned to it
H(result, calls, pageTokens, require, ensure) ==
    [result |-> result, calls |-> calls, pageTokens |-> pageTokens,
     require |-> require, ensure |-> ensure]

\* part_002:52-58
echoTool(params, active, userTokens, pageTokens, t) ==
    H(Return([payload |-> IF params.t = "undefined" THEN "null" ELSE params]),
      <<>>, pageTokens, NotCalled, NotCalled)

\* tools/fb.me.ts:11-16: the profile call `g` has settled
fbMeResult(token, pageTokens, g) ==
    IF g.kind = "throw"
    THEN H(Throw(g.value), <<g>>, pageTokens, token, NotCalled)
    ELSE H(Return([id |-> g.value.data.id, expires_at |-> token.value.expiresAt]),
           <<g>>, pageTokens, token, NotCalled)

\* tools/fb.me.ts:5-18 (graph.ts:150-152)
fbMeTool(active, userTokens, pageTokens, t, script) ==
    LET token == requireActiveUserToken(active, userTokens, t)
    IN  IF token.kind = "throw"
        THEN H(token, <<>>, pageTokens, token, NotCalled)
        ELSE fbMeResult(token, pageTokens,
                        callGraph("/me", script, MeDocument(token.value.accessToken)))

\* part_003:10-13: the page list `g` has settled
fbPageListResult(token, pageTokens, g) ==
    IF g.kind = "throw"
    THEN H(Throw(g.value), <<g>>, pageTokens, token, NotCalled)
    ELSE H(Return({pg.id : pg \in g.value.data}), <<g>>, pageTokens, token, NotCalled)

\* part_003:5-14 (graph.ts:154-171)
fbPageListTool(active, userTokens, pageTokens, t, script) ==
    LET token == requireActiveUserToken(active, userTokens, t)
    IN  IF token.kind = "throw"
        THEN H(token, <<>>, pageTokens, token, NotCalled)
        ELSE fbPageListResult(token, pageTokens,
                              callGraph("/me/accounts", script,
                                        AccountsDocument(token.value.accessToken)))

\* part_002:213-253: the photo upload (when an image is given), the post and
\* the permalink lookup, each call made only if the one before did not throw
PagePostCalls(imageUrl, token, e, photo, feed, link) ==
    LET uploads == IF imageUrl.t = "undefined" THEN <<>> ELSE <<photo>>
    IN  IF uploads # <<>> /\ photo.kind = "throw"
        THEN H(Throw(photo.value), e.calls \o uploads, e.pageTokens, token, e.result)
        ELSE IF feed.kind = "throw"
        THEN H(Throw(feed.value), e.calls \o uploads \o <<feed>>,
               e.pageTokens, token, e.result)
        ELSE H(Return([id |-> feed.value.data,
                       permalink_url |-> IF link.kind = "throw" THEN "null"
                                         ELSE link.value.data]),
               e.calls \o uploads \o <<feed, link>>, e.pageTokens, token, e.result)

\* part_002:211-253: ensurePageAccessToken has answered `e`
PagePostWithPage(imageUrl, token, e, sPhoto, sFeed, sLink) ==
    IF e.result.kind = "throw"
    THEN H(e.result, e.calls, e.pageTokens, token, e.result)
    ELSE PagePostCalls(imageUrl, token, e,
                       callGraph("/{page}/photos", sPhoto, "photo"),
                       callGraph("/{page}/feed", sFeed, "post"),
                       callGraph("/{post}", sLink, "permalink"))

PagePostBody_PageTokenFirst(pageId, imageUrl, active, userTokens, pageTokens, t, sList, sPhoto, sFeed, sLink) ==
    LET token == requireActiveUserToken(active, userTokens, t)
    IN  IF token.kind = "throw" /\ ~pageTokens[pageId].present
        THEN H(token, <<>>, pageTokens, token, NotCalled)
        ELSE IF token.kind = "throw"
        THEN PagePostCalls(imageUrl, token,
                           H(Return(pageTokens[pageId]), <<>>, pageTokens, token, NotCalled),
                           callGraph("/{page}/photos", sPhoto, "photo"),
                           callGraph("/{page}/feed", sFeed, "post"),
                           callGraph("/{post}", sLink, "permalink"))
        ELSE PagePostWithPage(imageUrl, token,
                              ensurePageAccessToken(pageTokens, token.value, pageId,
                                                    sList, t),
                              sPhoto, sFeed, sLink)

\* part_002:209-253: fb.page_post once its parameters are validated
PagePostBody(pageId, imageUrl, active, userTokens, pageTokens, t, sList, sPhoto, sFeed, sLink) ==
    LET token == requireActiveUserToken(active, userTokens, t)
    IN  IF token.kind = "throw"
        THEN H(token, <<>>, pageTokens, token, NotCalled)
        ELSE PagePostWithPage(imageUrl, token,
                              ensurePageAccessToken(pageTokens, token.value, pageId,
                                                    sList, t),
                              sPhoto, sFeed, sLink)

\* part_002:188-254
fbPagePostTool(params, active, userTokens, pageTokens, t, sList, sPhoto, sFeed, sLink) ==
    LET Fail(x) == H(x, <<>>, pageTokens, NotCalled, NotCalled)
    IN
    IF params.t # "object"
    THEN Fail(Throw(ToolError("invalid_params", "Parameters must be an object.", Undefined)))
    ELSE
    LET pageId == assertString(params.f.page_id, "page_id", TRUE)
        message == assertString(params.f.message, "message", TRUE)
        linkRaw == assertString(params.f.link, "link", FALSE)
        link == IF linkRaw.kind = "return" /\ linkRaw.value.t = "string"
                THEN validateUrl(linkRaw.value.s, "link") ELSE linkRaw
        imageRaw == assertString(params.f.image_url, "image_url", FALSE)
        image == IF imageRaw.kind = "return" /\ imageRaw.value.t = "string"
                 THEN validateUrl(imageRaw.value.s, "image_url") ELSE imageRaw
    IN  IF pageId.kind = "throw" THEN Fail(pageId)
        ELSE IF message.kind = "throw" THEN Fail(message)
        ELSE IF StrLen(message.value.s) > 2000
        THEN Fail(Throw(ToolError("invalid_params",
                        "message must be 2000 characters or fewer.", Undefined)))
        ELSE IF link.kind = "throw" THEN Fail(link)
        ELSE IF image.kind = "throw" THEN Fail(image)
        ELSE PagePostBody(pageId.value.s, image.value, active, userTokens,
                          pageTokens, t, sList, sPhoto, sFeed, sLink)

\* graph.ts:255-291: one fetch, no retry; every failure is a plain Error
debugToken(hasAppCredentials, upstream) ==
    IF ~hasAppCredentials
    THEN [path |-> "/debug_token", kind |-> "throw", attempts |-> 0, script |-> <<>>,
          value |-> PlainError("Facebook app credentials are required for token debug")]
    ELSE IF upstream.kind = "http" /\ ResponseOk(upstream.status)
    THEN [path |-> "/debug_token", kind |-> "return", attempts |-> 1, script |-> <<>>,
          value |-> OkBody("token info")]
    ELSE [path |-> "/debug_token", kind |-> "throw", attempts |-> 1, script |-> <<>>,
          value |-> PlainError(IF upstream.kind = "http"
                               THEN "Failed to debug token" ELSE "fetch failed")]

\* tools/fb.debug_token.ts:6-40
fbDebugTokenTool(params, active, userTokens, pageTokens, t, hasAppCredentials, upstream) ==
    LET Fail(x) == H(x, <<>>, pageTokens, NotCalled, NotCalled)
        explicit == params.t = "object" /\ params.f.token.t = "string"
                    /\ params.f.token.s # ""
    IN
    IF params.t = "object" /\ params.f.token.t \notin {"undefined", "string"}
    THEN Fail(Throw(ToolError("invalid_params", "token must be a string when provided.",
                              Undefined)))
    ELSE IF params.t \notin {"object", "undefined"}
    THEN Fail(Throw(ToolError("invalid_params", "Parameters must be an object.", Undefined)))
    ELSE
    LET userToken == IF explicit THEN NotCalled
                     ELSE requireActiveUserToken(active, userTokens, t)
    IN  IF userToken.kind = "throw"
        THEN H(userToken, <<>>, pageTokens, userToken, NotCalled)
        ELSE LET info == debugToken(hasAppCredentials, upstream)
             IN  IF info.kind = "throw"
                 THEN H(Throw(info.value), <<info>>, pageTokens, userToken, NotCalled)
                 ELSE H(Return(info.value.data), <<info>>, pageTokens, userToken,
                        NotCalled)

---------------------------------------------------------------------------
(* The dispatcher, mcp.ts *)

\* mcp.ts:39-49
Registry == {"echo", "fb.me", "fb.page_list", "fb.page_post", "fb.debug_token"}

\* index.ts:268-274: the names GET /api/tools answers with, the same as
\* README.md:124
apiTools ==
    {"fb.me", "fb.profile_timeline", "fb.profile_post", "fb.page_list", "fb.page_post",
     "fb.debug_token", "echo"}

\* mcp.ts:81
UnknownToolMessage(tool) == <<"Unknown tool: ", tool>>

dispatchTool_UnknownIsInternal(request, registered, ran) ==
    IF ~registered \/ ran.kind # "return"
    THEN Return([id |-> request.id, status |-> "error",
                 error |-> [code |-> "internal_error",
                            message |-> "Unexpected error executing tool."]])
    ELSE Return([id |-> request.id, status |-> "ok", result |-> ran.value])

dispatchTool_LeaksMessage(request, registered, ran) ==
    IF ~registered
    THEN Return([id |-> request.id, status |-> "error",
                 error |-> [code |-> "not_found",
                            message |-> UnknownToolMessage(request.tool)]])
    ELSE IF ran.kind = "return"
    THEN Return([id |-> request.id, status |-> "ok", result |-> ran.value])
    ELSE IF ran.value.kind = "ToolError"
    THEN Return([id |-> request.id, status |-> "error",
                 error |-> [code |-> ran.value.code, message |-> ran.value.message,
                            details |-> ran.value.details]])
    ELSE Return([id |-> request.id, status |-> "error",
                 error |-> [code |-> "internal_error",
                            message |-> IF "message" \in DOMAIN ran.value
                                        THEN ran.value.message
                                        ELSE "Unexpected error executing tool."]])

dispatchTool_DropsDetails(request, registered, ran) ==
    IF ~registered
    THEN Return([id |-> request.id, status |-> "error",
                 error |-> [code |-> "not_found",
                            message |-> UnknownToolMessage(request.tool)]])
    ELSE IF ran.kind = "return"
    THEN Return([id |-> request.id, status |-> "ok", result |-> ran.value])
    ELSE IF ran.value.kind = "ToolError"
    THEN Return([id |-> request.id, status |-> "error",
                 error |-> [code |-> ran.value.code, message |-> ran.value.message,
                            details |-> Undefined]])
    ELSE Return([id |-> request.id, status |-> "error",
                 error |-> [code |-> "internal_error",
                            message |-> "Unexpected error executing tool."]])

dispatchTool_LetsUnknownErrorsEscape(request, registered, ran) ==
    IF ~registered
    THEN Return([id |-> request.id, status |-> "error",
                 error |-> [code |-> "not_found",
                            message |-> UnknownToolMessage(request.tool)]])
    ELSE IF ran.kind = "return"
    THEN Return([id |-> request.id, status |-> "ok", result |-> ran.value])
    ELSE IF ran.value.kind = "ToolError"
    THEN Return([id |-> request.id, status |-> "error",
                 error |-> [code |-> ran.value.code, message |-> ran.value.message,
                            details |-> ran.value.details]])
    ELSE Throw(ran.value)

\* mcp.ts:69-119; `ran` is what tool.run returned or threw
dispatchTool(request, registered, ran) ==
    IF ~registered
    THEN Return([id |-> request.id, status |-> "error",
                 error |-> [code |-> "not_found",
                            message |-> UnknownToolMessage(request.tool)]])
    ELSE IF ran.kind = "return"
    THEN Return([id |-> request.id, status |-> "ok", result |-> ran.value])
    ELSE IF ran.value.kind = "ToolError"
    THEN Return([id |-> request.id, status |-> "error",
                 error |-> [code |-> ran.value.code, message |-> ran.value.message,
                            details |-> ran.value.details]])
    ELSE Return([id |-> request.id, status |-> "error",
                 error |-> [code |-> "internal_error",
                            message |-> "Unexpected error executing tool."]])

\* mcp.ts:89: tool.run(request.params, ctx) for a registered tool; `up`
\* scripts the upstream for each call the handler may make
RunTool(request, up) ==
    CASE request.tool = "echo" ->
             echoTool(request.params, kvActiveUser, kvUserToken, kvPageToken, now)
      [] request.tool = "fb.me" ->
             fbMeTool(kvActiveUser, kvUserToken, kvPageToken, now, up.first)
      [] request.tool = "fb.page_list" ->
             fbPageListTool(kvActiveUser, kvUserToken, kvPageToken, now, up.first)
      [] request.tool = "fb.page_post" ->
             fbPagePostTool(request.params, kvActiveUser, kvUserToken, kvPageToken, now,
                            up.first, up.photo, up.feed, up.link)
      [] request.tool = "fb.debug_token" ->
             fbDebugTokenTool(request.params, kvActiveUser, kvUserToken, kvPageToken, now,
                              envHasSecret, up.first[1])

\* mcp.ts:73-89: look the tool up and run it
LookupAndRun(request, up) ==
    IF request.tool \in Registry
    THEN RunTool(request, up)
    ELSE H(NotCalled, <<>>, kvPageToken, NotCalled, NotCalled)

\* POST /mcp once the envelope is parsed (part_004:173-174)
Dispatch(request, up) ==
    /\ \E ran \in {LookupAndRun(request, up)} :
           /\ resp' = dispatchTool(request, request.tool \in Registry, ran.result)
           /\ obs' = [kind |-> "dispatch", request |-> request, ran |-> ran.result,
                      calls |-> ran.calls, require |-> ran.require,
                      ensure |-> ran.ensure]
           /\ kvPageToken' = ran.pageTokens
    /\ UNCHANGED <<now, envHasSecret, kvActiveUser, kvUserToken, kvOAuth>>
    /\ UNCHANGED classifyVars
    /\ UNCHANGED graphVars
    /\ UNCHANGED restVars

---------------------------------------------------------------------------
(* The OAuth routes and the revoke route, part_004 and fb/oauth.ts *)

OAuthStates == {"s1"}

Verifiers == {"v1"}

RedirectUri == "https://worker.example/oauth/callback"

\* the token endpoint's answer: an HTTP response whose JSON body may carry
\* access_token and expires_in, or a transport failure
TokenResponse(status, hasToken, expiresIn) ==
    [kind |-> "http", status |-> status, hasToken |-> hasToken, expires_in |-> expiresIn,
     token_type |-> "bearer"]

\* oauth.ts:120-159
exchangeLongLivedToken(u, longResp, t) ==
    IF longResp.kind # "http"
    THEN Throw(PlainError("fetch failed"))
    ELSE IF ~ResponseOk(longResp.status)
    THEN Throw(PlainError("Could not exchange token"))
    ELSE IF ~longResp.hasToken
    THEN Throw(PlainError("Long-lived token response missing access_token"))
    ELSE Return([accessToken |-> UserTok(u, "long"), tokenType |-> longResp.token_type,
                 expiresAt |-> IF Truthy(longResp.expires_in)
                               THEN (t \div 1000) + longResp.expires_in
                               ELSE NoNumber])

\* what exchangeCodeForToken did: its result, and whether it called
\* exchangeLongLivedToken (not_attempted | failed | done)
Exchanged(result, upgrade) ==
    [kind |-> result.kind, value |-> result.value, upgrade |-> upgrade]

exchangeCodeForToken_UpgradeFailureFails(u, tokResp, hasSecret, longResp, t) ==
    IF tokResp.kind # "http" \/ ~ResponseOk(tokResp.status) \/ ~tokResp.hasToken
    THEN Exchanged(Throw(PlainError("Token exchange failed")), "not_attempted")
    ELSE IF ~hasSecret
    THEN Exchanged(Return([accessToken |-> UserTok(u, "short"),
                           tokenType |-> tokResp.token_type,
                           expiresAt |-> IF Truthy(tokResp.expires_in)
                                         THEN (t \div 1000) + tokResp.expires_in
                                         ELSE NoNumber]), "not_attempted")
    ELSE Exchanged(exchangeLongLivedToken(u, longResp, t),
                   IF exchangeLongLivedToken(u, longResp, t).kind = "return"
                   THEN "done" ELSE "failed")

exchangeCodeForToken_OneFailure(u, tokResp, hasSecret, longResp, t) ==
    IF tokResp.kind # "http" \/ ~ResponseOk(tokResp.status) \/ ~tokResp.hasToken
    THEN Exchanged(Throw(PlainError("Token exchange failed")), "not_attempted")
    ELSE Exchanged(Return([accessToken |-> UserTok(u, "short"),
                           tokenType |-> tokResp.token_type,
                           expiresAt |-> IF Truthy(tokResp.expires_in)
                                         THEN (t \div 1000) + tokResp.expires_in
                                         ELSE NoNumber]), "not_attempted")

\* oauth.ts:105-117: the upgrade, tried only with an app secret, and the
\* value returned; `short` is the token of lines 93-99
exchangeUpgrade(short, hasSecret, longLived) ==
    IF ~hasSecret
    THEN Exchanged(Return(short), "not_attempted")
    ELSE IF longLived.kind = "return"
    THEN Exchanged(Return([accessToken |-> longLived.value.accessToken,
                           tokenType |-> longLived.value.tokenType,
                           expiresAt |-> IF longLived.value.expiresAt # NoNumber
                                         THEN longLived.value.expiresAt
                                         ELSE short.expiresAt]), "done")
    ELSE Exchanged(Return(short), "failed")

\* oauth.ts:58-118; u is the identity that granted the code
exchangeCodeForToken(u, tokResp, hasSecret, longResp, t) ==
    IF tokResp.kind # "http"
    THEN Exchanged(Throw(PlainError("fetch failed")), "not_attempted")
    ELSE IF ~ResponseOk(tokResp.status)
    THEN Exchanged(Throw(PlainError("Token exchange failed (<status>)")),
                   "not_attempted")
    ELSE IF ~tokResp.hasToken
    THEN Exchanged(Throw(PlainError("Token exchange response missing access_token")),
                   "not_attempted")
    ELSE exchangeUpgrade([accessToken |-> UserTok(u, "short"),
                          tokenType |-> tokResp.token_type,
                          expiresAt |-> IF Truthy(tokResp.expires_in)
                                        THEN (t \div 1000) + tokResp.expires_in
                                        ELSE NoNumber],
                         hasSecret, exchangeLongLivedToken(u, longResp, t))

\* GET /oauth/start, part_004:276-296
OAuthStart ==
    /\ \E st \in OAuthStates, v \in Verifiers :
          /\ kvOAuth' = [kvOAuth EXCEPT ![st] =
                 KvPut([codeVerifier |-> v, redirectUri |-> RedirectUri],
                       NoNumber, 600, now)]
          /\ obs' = [kind |-> "oauth_start", state |-> st, codeVerifier |-> v]
    /\ resp' = [kind |-> "none"]
    /\ UNCHANGED <<now, envHasSecret, kvActiveUser, kvUserToken, kvPageToken>>
    /\ UNCHANGED classifyVars
    /\ UNCHANGED graphVars
    /\ UNCHANGED restVars

\* GET /oauth/callback, part_004:298-335 (storage.ts:73-80, oauth.ts:161-177)
OAuthCallback(st, errorParam, hasCode, u, tokResp, longResp, script) ==
    /\ resp' = [kind |-> "none"]
    /\ IF errorParam \/ ~hasCode \/ ~kvOAuth[st].present
       THEN /\ obs' = [kind |-> "oauth_callback", status |-> 400]
            /\ UNCHANGED kvVars
       ELSE
       LET token == exchangeCodeForToken(u, tokResp, envHasSecret, longResp, now)
           me == IF token.kind = "throw" THEN NotCalled
                 ELSE callGraph("/me", script, MeDocument(token.value.accessToken))
       IN  /\ kvOAuth' = [kvOAuth EXCEPT ![st] = NoEntry]
           /\ UNCHANGED kvPageToken
           /\ IF token.kind = "throw" \/ me.kind = "throw"
              THEN /\ obs' = [kind |-> "oauth_callback", status |-> 500]
                   /\ UNCHANGED <<kvActiveUser, kvUserToken>>
              ELSE LET record == UserTokenRecord(token.value.accessToken,
                                                 token.value.tokenType,
                                                 token.value.expiresAt,
                                                 me.value.data.id)
                   IN  /\ kvUserToken' = saveUserToken(kvUserToken, record.userId,
                                                       record, now)
                       /\ kvActiveUser' = record.userId
                       /\ obs' = [kind |-> "oauth_callback", status |-> 200]
    /\ UNCHANGED <<now, envHasSecret>>
    /\ UNCHANGED classifyVars
    /\ UNCHANGED graphVars
    /\ UNCHANGED restVars

\* POST /api/auth/revoke, part_004:256-266 (storage.ts:24-26, 48-50)
Revoke ==
    /\ kvUserToken' = IF kvActiveUser # NoUser
                      THEN [kvUserToken EXCEPT ![kvActiveUser] = NoEntry]
                      ELSE kvUserToken
    /\ kvActiveUser' = NoUser
    /\ obs' = [kind |-> "revoke"]
    /\ resp' = [kind |-> "none"]
    /\ UNCHANGED <<now, envHasSecret, kvPageToken, kvOAuth>>
    /\ UNCHANGED classifyVars
    /\ UNCHANGED graphVars
    /\ UNCHANGED restVars

---------------------------------------------------------------------------
(* Time and the store's expiry *)

\* clock granularity, ms
TickMs == 1000 \div 2

MaxTicks == 3

Tick ==
    /\ now + TickMs <= MaxTicks * TickMs
    /\ now' = now + TickMs
    /\ obs' = [kind |-> "tick"]
    /\ resp' = [kind |-> "none"]
    /\ UNCHANGED <<envHasSecret, kvActiveUser, kvUserToken, kvPageToken, kvOAuth>>
    /\ UNCHANGED classifyVars
    /\ UNCHANGED graphVars
    /\ UNCHANGED restVars

Expired(e) == e.present /\ e.expiration # NoNumber /\ e.expiration * 1000 <= now

Drop(map) == [k \in DOMAIN map |-> IF Expired(map[k]) THEN NoEntry ELSE map[k]]

\* the store drops the keys whose expiration has passed, at some time
\* after it has passed
KvExpire ==
    /\ <<Drop(kvUserToken), Drop(kvPageToken), Drop(kvOAuth)>>
           # <<kvUserToken, kvPageToken, kvOAuth>>
    /\ kvUserToken' = Drop(kvUserToken)
    /\ kvPageToken' = Drop(kvPageToken)
    /\ kvOAuth' = Drop(kvOAuth)
    /\ obs' = [kind |-> "kv_expire"]
    /\ resp' = [kind |-> "none"]
    /\ UNCHANGED <<now, envHasSecret, kvActiveUser>>
    /\ UNCHANGED classifyVars
    /\ UNCHANGED graphVars
    /\ UNCHANGED restVars

---------------------------------------------------------------------------
(* Spec: the dispatcher with every tool, parameter shape and upstream script *)

ReqIds == {"r1", "r2"}

EchoParams == {U, Str("hello")}

\* parameter values fb.page_post rejects
BadPagePostParams ==
    {U, Num,
     Obj([page_id |-> U, message |-> Str("hello"), image_url |-> U, link |-> U]),
     Obj([page_id |-> Str(Blank), message |-> Str("hello"), image_url |-> U, link |-> U]),
     Obj([page_id |-> Str("p1"), message |-> Num, image_url |-> U, link |-> U]),
     Obj([page_id |-> Str("p1"), message |-> Str(LongMessage), image_url |-> U,
          link |-> U]),
     Obj([page_id |-> Str("p1"), message |-> Str("hello"), image_url |-> Str(BadUrl),
          link |-> U])}

GoodPagePostParams ==
    {Obj([page_id |-> Str(pg), message |-> Str("hello"), image_url |-> img, link |-> U]) :
        pg \in Pages, img \in {U, Str(GoodUrl)}}

DebugTokenParams ==
    {U, Num, Obj([token |-> U]), Obj([token |-> Num]), Obj([token |-> Str("EAAB")])}

NoScript == <<Ok200, Ok200, Ok200>>

Exhausted == <<H500, H500, H500>>

Up(first, photo, feed, link) ==
    [first |-> first, photo |-> photo, feed |-> feed, link |-> link]

\* the upstream during one fb.page_post: the page-list fetch goes each way
\* and the rest goes well, or the list is served and the photo upload fails,
\* the post is rejected, or the permalink lookup fails
PagePostUps ==
    { Up(s, NoScript, NoScript, NoScript) : s \in FollowScripts } \cup
    { Up(NoScript, Exhausted, NoScript, NoScript),
      Up(NoScript, NoScript, <<H400, Ok200, Ok200>>, NoScript),
      Up(NoScript, NoScript, NoScript, Exhausted) }

Request(id, tool, params) == [id |-> id, tool |-> tool, params |-> params]

\* every request the dispatcher can be handed, with the upstream's behaviour
DispatchAny ==
    \E id \in ReqIds :
        \/ \E tool \in {"unknown.tool", "fb.profile_post"} :
               Dispatch(Request(id, tool, U), Up(NoScript, NoScript, NoScript, NoScript))
        \/ \E params \in EchoParams :
               Dispatch(Request(id, "echo", params),
                        Up(NoScript, NoScript, NoScript, NoScript))
        \/ \E tool \in {"fb.me", "fb.page_list"}, s \in SysScripts :
               Dispatch(Request(id, tool, U), Up(s, NoScript, NoScript, NoScript))
        \/ \E params \in BadPagePostParams :
               Dispatch(Request(id, "fb.page_post", params),
                        Up(NoScript, NoScript, NoScript, NoScript))
        \/ \E params \in GoodPagePostParams, up \in PagePostUps :
               Dispatch(Request(id, "fb.page_post", params), up)
        \/ \E params \in DebugTokenParams,
              s \in {<<Ok200>>, <<H400>>, <<TransportOutcome>>} :
               Dispatch(Request(id, "fb.debug_token", params),
                        Up(s, NoScript, NoScript, NoScript))

\* the long-lived upgrade refused
UpgradeRefused == TokenResponse(400, FALSE, NoNumber)

\* an authorization that the platform grants or refuses
CallbackPlain ==
    \E st \in OAuthStates, u \in Users, hasCode \in BOOLEAN, tokStatus \in {200, 400} :
        OAuthCallback(st, FALSE, hasCode, u,
                      TokenResponse(tokStatus, TRUE, NoNumber), UpgradeRefused, NoScript)

Init ==
    /\ ParkedClassify
    /\ ParkedGraph
    /\ ParkedRest
    /\ now = 0
    /\ envHasSecret \in BOOLEAN
    /\ kvActiveUser = NoUser
    /\ kvUserToken = [u \in Users |-> NoEntry]
    /\ kvPageToken = [p \in Pages |-> NoEntry]
    /\ kvOAuth = [st \in OAuthStates |-> NoEntry]
    /\ resp = [kind |-> "none"]
    /\ obs = [kind |-> "none"]

Next ==
    \/ DispatchAny
    \/ OAuthStart
    \/ CallbackPlain
    \/ Revoke

Spec == Init /\ [][Next]_vars

---------------------------------------------------------------------------
(* SpecTokens: the credential lifecycle over time *)

\* the credential-reading tools, with valid parameters
DispatchCredentialed ==
    \/ \E s \in FollowScripts :
           Dispatch(Request("r1", "fb.me", U), Up(s, NoScript, NoScript, NoScript))
    \/ \E pg \in Pages, s \in FollowScripts :
           Dispatch(Request("r1", "fb.page_post",
                            Obj([page_id |-> Str(pg), message |-> Str("hello"),
                                 image_url |-> U, link |-> U])),
                    Up(s, NoScript, NoScript, NoScript))

\* the token endpoint's answers: a token without or with expires_in (1 s),
\* a refusal, a 2xx without access_token
TokenAnswers ==
    { TokenResponse(200, TRUE, NoNumber), TokenResponse(200, TRUE, 1),
      TokenResponse(400, FALSE, NoNumber), TokenResponse(200, FALSE, 1) }

\* the platform redirects back with an error parameter
CallbackRefused ==
    \E st \in OAuthStates :
        OAuthCallback(st, TRUE, FALSE, "uA", UpgradeRefused, UpgradeRefused, NoScript)

\* the platform redirects back with a code
CallbackWithCode ==
    \E st \in OAuthStates, u \in Users, tok \in TokenAnswers,
       script \in {NoScript, Exhausted} :
        OAuthCallback(st, FALSE, TRUE, u, tok, UpgradeRefused, script)

InitTokens ==
    /\ ParkedClassify
    /\ ParkedGraph
    /\ ParkedRest
    /\ now = 0
    /\ envHasSecret = TRUE
    /\ kvActiveUser = NoUser
    /\ kvUserToken = [u \in Users |-> NoEntry]
    /\ kvPageToken = [p \in Pages |-> NoEntry]
    /\ kvOAuth = [st \in OAuthStates |-> NoEntry]
    /\ resp = [kind |-> "none"]
    /\ obs = [kind |-> "none"]

NextTokens ==
    \/ DispatchCredentialed
    \/ OAuthStart
    \/ CallbackRefused
    \/ CallbackWithCode
    \/ Revoke
    \/ Tick
    \/ KvExpire

SpecTokens == InitTokens /\ [][NextTokens]_vars

---------------------------------------------------------------------------
(* SSE sessions, sse.ts.  A string is the sequence of its characters; the   *)
(* literal prefixes "event: " and "data: " are one element each.            *)

LF == "\n"

\* JSON.stringify of a non-string value whose text content is `chars`: one
\* line, a line feed inside it is written as the two characters \ and n
RECURSIVE JsonEscape(_)
JsonEscape(chars) ==
    IF chars = <<>> THEN <<>>
    ELSE (IF Head(chars) = LF THEN <<"\\", "n">> ELSE <<Head(chars)>>)
         \o JsonEscape(Tail(chars))

\* a non-string payload
JsonValue(chars) == [t |-> "object", s |-> chars]

\* sse.ts:30: typeof data === 'string' ? data : JSON.stringify(data)
PayloadText(data) ==
    IF data.t = "string" THEN data.s ELSE <<"{">> \o JsonEscape(data.s) \o <<"}">>

\* String.prototype.split(/\n/): the pieces between line feeds, at least one
RECURSIVE SplitLines(_, _)
SplitLines(text, current) ==
    IF text = <<>> THEN <<current>>
    ELSE IF Head(text) = LF THEN <<current>> \o SplitLines(Tail(text), <<>>)
    ELSE SplitLines(Tail(text), Append(current, Head(text)))

\* sse.ts:31-33: one data line per piece
RECURSIVE DataLines(_)
DataLines(lines) ==
    IF lines = <<>> THEN <<>>
    ELSE <<"data: ">> \o Head(lines) \o <<LF>> \o DataLines(Tail(lines))

\* sse.ts:30: JSON.stringify(undefined) is undefined, and text.split throws
sendThrows(data) == data.t = "undefined"

\* sse.ts:26-34: the payload string of one event
Frame(event, data) ==
    (IF event # <<>> THEN <<"event: ">> \o event \o <<LF>> ELSE <<>>)
    \o DataLines(SplitLines(PayloadText(data), <<>>))
    \o <<LF>>

\* sse.ts:7-22 and 64-71: a session made by sseResponse: the closure's
\* `closed`, the chunks enqueued on the controller, whether controller.close
\* was called, whether `cleanup` is assigned, and how often the cleanup and
\* the caller's onClose have run
Session(closed, frames, ended, cleanup, cleanupRuns, onCloseRuns) ==
    [kind |-> "session", closed |-> closed, frames |-> frames, ended |-> ended,
     cleanup |-> cleanup, cleanupRuns |-> cleanupRuns, onCloseRuns |-> onCloseRuns]

\* sse.ts:65-71: the onClose handed to createSSESession
onClose(s) ==
    [s EXCEPT !.cleanupRuns = IF s.cleanup THEN s.cleanupRuns + 1 ELSE s.cleanupRuns,
              !.onCloseRuns = s.onCloseRuns + 1]

send_IgnoresClosed(s, event, data) ==
    IF sendThrows(data) THEN s
    ELSE [s EXCEPT !.frames = Append(s.frames, Frame(event, data))]

\* sse.ts:24-36
send(s, event, data) ==
    IF s.closed THEN s
    ELSE IF sendThrows(data) THEN s
    ELSE [s EXCEPT !.frames = Append(s.frames, Frame(event, data))]

\* sse.ts:38-41
comment(s, text) ==
    IF s.closed THEN s
    ELSE [s EXCEPT !.frames = Append(s.frames, <<": ">> \o text \o <<LF, LF>>)]

\* sse.ts:43-48
close(s) ==
    IF s.closed THEN s
    ELSE [onClose([s EXCEPT !.closed = TRUE]) EXCEPT !.ended = TRUE]

cancel_Unguarded(s) == onClose([s EXCEPT !.closed = TRUE])

\* sse.ts:16-21: the stream's cancel(), called when the peer goes away
cancel(s) ==
    IF s.closed THEN s
    ELSE onClose([s EXCEPT !.closed = TRUE])

\* sse.ts:60-91: the session once the queued microtask has run the handler:
\* a handler that returns a function registers it as cleanup; a handler that
\* throws has the session closed with no cleanup registered
sseResponse(handler) ==
    CASE handler = "returns_cleanup" -> Session(FALSE, <<>>, FALSE, TRUE, 0, 0)
      [] handler = "returns_nothing" -> Session(FALSE, <<>>, FALSE, FALSE, 0, 0)
      [] handler = "throws" -> close(Session(FALSE, <<>>, FALSE, FALSE, 0, 0))

---------------------------------------------------------------------------
(* SpecSession: one session, its four operations called in any order *)

MaxFrames == 2

\* event names: none, a plain name, a name holding line feeds
EventNames == {<<>>, <<"e">>, <<"e", LF, LF, "x">>}

\* payloads: the empty string, a string of two lines, a non-string value
\* whose text holds a line feed, undefined
Payloads ==
    {Str(<<>>), Str(<<"a", LF, "b">>), JsonValue(<<"a", LF, "b">>), U}

Call(kind, args, s) ==
    [kind |-> kind, args |-> args, wasClosed |-> s.closed, before |-> Len(s.frames)]

InitSession ==
    /\ ParkedClassify
    /\ ParkedGraph
    /\ ParkedSys
    /\ ParkedExchange /\ ParkedEnsure /\ ParkedCallback /\ ParkedSse /\ ParkedLater
    /\ \E handler \in {"returns_cleanup", "returns_nothing", "throws"} :
           session = sseResponse(handler)
    /\ s_call = [kind |-> "none"]

Send(event, data) ==
    /\ session.closed \/ Len(session.frames) < MaxFrames
    /\ session' = send(session, event, data)
    /\ s_call' = Call("send", <<event, data>>, session)
    /\ UNCHANGED classifyVars
    /\ UNCHANGED graphVars
    /\ UNCHANGED sysVars
    /\ UNCHANGED <<exchangeVars, ensureVars, callbackVars, sseVars, laterVars>>

Comment(text) ==
    /\ session.closed \/ Len(session.frames) < MaxFrames
    /\ session' = comment(session, text)
    /\ s_call' = Call("comment", <<text>>, session)
    /\ UNCHANGED classifyVars
    /\ UNCHANGED graphVars
    /\ UNCHANGED sysVars
    /\ UNCHANGED <<exchangeVars, ensureVars, callbackVars, sseVars, laterVars>>

Close ==
    /\ session' = close(session)
    /\ s_call' = Call("close", <<>>, session)
    /\ UNCHANGED classifyVars
    /\ UNCHANGED graphVars
    /\ UNCHANGED sysVars
    /\ UNCHANGED <<exchangeVars, ensureVars, callbackVars, sseVars, laterVars>>

Cancel ==
    /\ session' = cancel(session)
    /\ s_call' = Call("cancel", <<>>, session)
    /\ UNCHANGED classifyVars
    /\ UNCHANGED graphVars
    /\ UNCHANGED sysVars
    /\ UNCHANGED <<exchangeVars, ensureVars, callbackVars, sseVars, laterVars>>

NextSession ==
    \/ \E event \in EventNames, data \in Payloads : Send(event, data)
    \/ \E text \in {<<"k">>} : Comment(text)
    \/ Close
    \/ Cancel

SpecSession == InitSession /\ [][NextSession]_vars

---------------------------------------------------------------------------
(* SpecSse: the worker's two SSE routes, GET /mcp/sse and GET               *)
(* /api/logs/stream, the heartbeat timers and the peers going away.         *)

\* index.ts:45 has 100; two keep the admission states enumerable
MAX_SSE_STREAMS == 2

\* connections ever accepted in one run
MaxConns == MAX_SSE_STREAMS + 1

\* index.ts:141: setInterval(..., 15_000)
HeartbeatMs == 15000

\* heartbeat periods the clock runs through
MaxPings == 1

ClockStep == HeartbeatMs \div 3

\* one accepted connection: its route, its session and, for /mcp/sse, when
\* it was opened, when its interval fires next, how often it has fired
Stream(endpoint, s, openedAt, due, fired) ==
    [endpoint |-> endpoint, s |-> s, openedAt |-> openedAt, due |-> due,
     fired |-> fired]

tooManyStreams_OffByOne(active) == active > MAX_SSE_STREAMS

\* index.ts:127
tooManyStreams(active) == active >= MAX_SSE_STREAMS

\* index.ts:134-144: the /mcp/sse handler; it returns the clearInterval cleanup
mcpHandler(s) == send(s, <<"ready">>, JsonValue(<<"status", "time">>))

mcpHeartbeat_SendsReady(s) == send(s, <<"ready">>, JsonValue(<<"ts">>))

\* index.ts:139-141: the interval's callback
mcpHeartbeat(s) == send(s, <<"ping">>, JsonValue(<<"ts">>))

\* index.ts:241-243: the log listener of one stream
onLog(s) == send(s, <<"log">>, JsonValue(<<"entry">>))

\* index.ts:235-247: the /api/logs/stream handler with `recent` buffered
\* entries; it returns the unsubscribe cleanup
RECURSIVE sendRecent(_, _)
sendRecent(s, recent) ==
    IF recent = 0 THEN s ELSE sendRecent(onLog(s), recent - 1)

logsHandler(s, recent) ==
    sendRecent(send(s, <<"ready">>, JsonValue(<<"ts">>)), recent)

\* clearInterval / unsubscribe has not run
Armed(st) == ~st.s.closed /\ st.s.cleanupRuns = 0

Open(ss) == {i \in 1..Len(ss) : ~ss[i].s.closed}

OpenMcp(ss) == {i \in Open(ss) : ss[i].endpoint = "mcp"}

\* index.ts:145-147, run when the session's onClose has run
release(active, before, after) ==
    IF after.onCloseRuns > before.onCloseRuns /\ active > 0 THEN active - 1
    ELSE active

InitSse ==
    /\ ParkedClassify
    /\ ParkedGraph
    /\ ParkedSys
    /\ ParkedExchange /\ ParkedEnsure /\ ParkedCallback /\ ParkedSession /\ ParkedLater
    /\ activeMcpStreams = 0
    /\ streams = <<>>
    /\ sse_obs = [kind |-> "none"]
    /\ sse_now = 0

SseAnswer(kind, allowed, status, retryAfter) ==
    [kind |-> kind, allowed |-> allowed, status |-> status,
     retryAfter |-> retryAfter, before |-> activeMcpStreams,
     openBefore |-> Cardinality(Open(streams)), lenBefore |-> Len(streams)]

\* index.ts:123-153
McpSse(originAllowed) ==
    /\ ~originAllowed \/ tooManyStreams(activeMcpStreams) \/ Len(streams) < MaxConns
    /\ IF ~originAllowed
       THEN /\ sse_obs' = SseAnswer("mcp_sse", FALSE, 403, "none")
            /\ UNCHANGED <<activeMcpStreams, streams>>
       ELSE IF tooManyStreams(activeMcpStreams)
       THEN /\ sse_obs' = SseAnswer("mcp_sse", TRUE, 429, "30")
            /\ UNCHANGED <<activeMcpStreams, streams>>
       ELSE /\ activeMcpStreams' = activeMcpStreams + 1
            /\ streams' = Append(streams,
                   Stream("mcp", mcpHandler(sseResponse("returns_cleanup")),
                          sse_now, sse_now + HeartbeatMs, 0))
            /\ sse_obs' = SseAnswer("mcp_sse", TRUE, 200, "none")
    /\ UNCHANGED sse_now
    /\ UNCHANGED classifyVars
    /\ UNCHANGED graphVars
    /\ UNCHANGED sysVars
    /\ UNCHANGED <<exchangeVars, ensureVars, callbackVars, sessionVars, laterVars>>

\* index.ts:231-254
LogsStream(admin, recent) ==
    /\ ~admin \/ Len(streams) < MaxConns
    /\ IF ~admin
       THEN /\ sse_obs' = SseAnswer("logs_stream", FALSE, 401, "none")
            /\ UNCHANGED streams
       ELSE /\ streams' = Append(streams,
                   Stream("logs", logsHandler(sseResponse("returns_cleanup"), recent),
                          0, 0, 0))
            /\ sse_obs' = SseAnswer("logs_stream", TRUE, 200, "none")
    /\ UNCHANGED <<activeMcpStreams, sse_now>>
    /\ UNCHANGED classifyVars
    /\ UNCHANGED graphVars
    /\ UNCHANGED sysVars
    /\ UNCHANGED <<exchangeVars, ensureVars, callbackVars, sessionVars, laterVars>>

\* time passes, never beyond a timer that is due
ClockAdvance ==
    /\ sse_now < HeartbeatMs * MaxPings
    /\ \A i \in 1..Len(streams) :
           (streams[i].endpoint = "mcp" /\ Armed(streams[i]))
               => sse_now + ClockStep <= streams[i].due
    /\ sse_now' = sse_now + ClockStep
    /\ sse_obs' = [kind |-> "other"]
    /\ UNCHANGED <<activeMcpStreams, streams>>
    /\ UNCHANGED classifyVars
    /\ UNCHANGED graphVars
    /\ UNCHANGED sysVars
    /\ UNCHANGED <<exchangeVars, ensureVars, callbackVars, sessionVars, laterVars>>

\* index.ts:139-141: the interval of stream i fires
HeartbeatTick(i) ==
    /\ streams[i].endpoint = "mcp"
    /\ Armed(streams[i])
    /\ sse_now = streams[i].due
    /\ streams' = [streams EXCEPT ![i] =
           Stream("mcp", mcpHeartbeat(streams[i].s), streams[i].openedAt,
                  streams[i].due + HeartbeatMs, streams[i].fired + 1)]
    /\ sse_obs' = [kind |-> "other"]
    /\ UNCHANGED <<activeMcpStreams, sse_now>>
    /\ UNCHANGED classifyVars
    /\ UNCHANGED graphVars
    /\ UNCHANGED sysVars
    /\ UNCHANGED <<exchangeVars, ensureVars, callbackVars, sessionVars, laterVars>>

\* logger.ts:179-181: a log entry is handed to every subscribed listener
LogEntry ==
    /\ \E i \in 1..Len(streams) : streams[i].endpoint = "logs" /\ Armed(streams[i])
    /\ \A i \in 1..Len(streams) :
           streams[i].endpoint = "logs" => Len(streams[i].s.frames) <= MaxPings
    /\ streams' = [i \in 1..Len(streams) |->
           IF streams[i].endpoint = "logs" /\ Armed(streams[i])
           THEN [streams[i] EXCEPT !.s = onLog(streams[i].s)]
           ELSE streams[i]]
    /\ sse_obs' = [kind |-> "other"]
    /\ UNCHANGED <<activeMcpStreams, sse_now>>
    /\ UNCHANGED classifyVars
    /\ UNCHANGED graphVars
    /\ UNCHANGED sysVars
    /\ UNCHANGED <<exchangeVars, ensureVars, callbackVars, sessionVars, laterVars>>

\* sse.ts:16-21 with index.ts:142-147: the peer of stream i goes away
PeerCancel(i) ==
    /\ streams' = [streams EXCEPT ![i].s = cancel(streams[i].s)]
    /\ activeMcpStreams' =
           IF streams[i].endpoint = "mcp"
           THEN release(activeMcpStreams, streams[i].s, cancel(streams[i].s))
           ELSE activeMcpStreams
    /\ sse_obs' = [kind |-> "other"]
    /\ UNCHANGED sse_now
    /\ UNCHANGED classifyVars
    /\ UNCHANGED graphVars
    /\ UNCHANGED sysVars
    /\ UNCHANGED <<exchangeVars, ensureVars, callbackVars, sessionVars, laterVars>>

NextSse ==
    \/ \E originAllowed \in BOOLEAN : McpSse(originAllowed)
    \/ \E admin \in BOOLEAN, recent \in 0..1 : LogsStream(admin, recent)
    \/ ClockAdvance
    \/ \E i \in 1..Len(streams) : HeartbeatTick(i)
    \/ LogEntry
    \/ \E i \in 1..Len(streams) : PeerCancel(i)

SpecSse == InitSse /\ [][NextSse]_vars

---------------------------------------------------------------------------
(* The specifications of SpecDispatchFn and after leave every earlier       *)
(* variable parked.                                                         *)

earlierVars ==
    <<classifyVars, graphVars, sysVars, exchangeVars, ensureVars, callbackVars,
      sessionVars, sseVars>>

ParkedEarlier ==
    /\ ParkedClassify
    /\ ParkedGraph
    /\ ParkedSys
    /\ ParkedExchange /\ ParkedEnsure /\ ParkedCallback /\ ParkedSession /\ ParkedSse

---------------------------------------------------------------------------
(* SpecDispatchFn: dispatchTool over everything a handler can return or     *)
(* throw, two handler outcomes for the same request side by side            *)

\* what a handler can throw: ToolErrors with and without details, a
\* GraphApiError, plain Errors, an object shaped like a ToolError that is
\* not one, a string
Thrown ==
    { ToolError(code, "m1", details) :
          code \in {"auth_required", "invalid_params"},
          details \in {Undefined, "details-1", "details-2"} } \cup
    { ToolError("not_found", "m2", Undefined),
      GraphApiError("Graph API request failed", 503, "body-1", TRUE),
      PlainError("boom at helpers.ts:12"), PlainError("secret EAAB leaked"),
      [kind |-> "object", code |-> "auth_required", message |-> "m1"],
      [kind |-> "string", s |-> "boom"] }

HandlerOutcomes == {Return("result-1")} \cup {Throw(e) : e \in Thrown}

InitDispatchFn ==
    /\ ParkedEarlier
    /\ ParkedLast
    /\ ParkedLimiter
    /\ ParkedSettings
    /\ \E id \in ReqIds, ran \in HandlerOutcomes, other \in HandlerOutcomes :
           f_args = [kind |-> "dispatchTool", request |-> Request(id, "echo", U),
                     ran |-> ran, other |-> other]
    /\ f_result = [kind |-> "none"]

\* mcp.ts:88-118 for the two outcomes
DispatchBoth ==
    /\ f_result.kind = "none"
    /\ f_result' = [kind |-> "done",
                    first |-> dispatchTool(f_args.request, TRUE, f_args.ran),
                    second |-> dispatchTool(f_args.request, TRUE, f_args.other)]
    /\ UNCHANGED <<f_args, rl, sc>>
    /\ UNCHANGED <<earlierVars, lastVars>>

NextDispatchFn == DispatchBoth

SpecDispatchFn == InitDispatchFn /\ [][NextDispatchFn]_vars

---------------------------------------------------------------------------
(* SpecEnvelope: POST /mcp from the parsed JSON body to the response        *)

Null == [t |-> "null"]

Arr == [t |-> "array"]

\* value[name] of mcp.ts:55; an array or an object without the member
\* gives undefined
Member(value, name) == IF value.t = "object" THEN value.f[name] ELSE U

parseRequestEnvelope_AcceptsEmptyTool(value) ==
    IF value.t \notin {"object", "array"}
    THEN Throw(ToolError("invalid_request", "Request payload must be an object.",
                         Undefined))
    ELSE IF Member(value, "id").t # "string" \/ Member(value, "id").s = ""
    THEN Throw(ToolError("invalid_request", "Request id is required.", Undefined))
    ELSE IF Member(value, "tool").t # "string"
    THEN Throw(ToolError("invalid_request", "Tool name is required.", Undefined))
    ELSE Return(Request(Member(value, "id").s, Member(value, "tool").s,
                        Member(value, "params")))

\* mcp.ts:51-63; null, undefined, numbers and strings fail the first test
\* (falsy, or typeof other than 'object')
parseRequestEnvelope(value) ==
    IF value.t \notin {"object", "array"}
    THEN Throw(ToolError("invalid_request", "Request payload must be an object.",
                         Undefined))
    ELSE IF Member(value, "id").t # "string" \/ Member(value, "id").s = ""
    THEN Throw(ToolError("invalid_request", "Request id is required.", Undefined))
    ELSE IF Member(value, "tool").t # "string" \/ Member(value, "tool").s = ""
    THEN Throw(ToolError("invalid_request", "Tool name is required.", Undefined))
    ELSE Return(Request(Member(value, "id").s, Member(value, "tool").s,
                        Member(value, "params")))

\* index.ts:171-181 and 338-342: the body has been read; `ran` is what the
\* handler does if it is reached
postMcpParsed(parsed, ran) ==
    IF parsed.kind = "throw"
    THEN [kind |-> "done", parsed |-> parsed, status |-> 400, dispatched |-> FALSE,
          body |-> [error |-> [message |-> parsed.value.message, status |-> 400,
                               details |-> parsed.value.details]]]
    ELSE [kind |-> "done", parsed |-> parsed, status |-> 200, dispatched |-> TRUE,
          body |-> dispatchTool(parsed.value, parsed.value.tool \in Registry, ran).value]

\* index.ts:155-181: POST /mcp
postMcp(originAllowed, rateAllowed, body, ran) ==
    IF ~originAllowed
    THEN [kind |-> "done", parsed |-> NotCalled, status |-> 403, dispatched |-> FALSE,
          body |-> [error |-> [message |-> "Origin not allowed", status |-> 403,
                               details |-> Undefined]]]
    ELSE IF ~rateAllowed
    THEN [kind |-> "done", parsed |-> NotCalled, status |-> 429, dispatched |-> FALSE,
          body |-> [error |-> [message |-> "Rate limit exceeded"]]]
    ELSE postMcpParsed(parseRequestEnvelope(body), ran)

\* the members id and tool of a body: absent, of another type, empty, a name
IdMembers == {U, Null, Num, Str(""), Str("r1")}

ToolMembers == {U, Num, Str(""), Str("echo"), Str("unknown.tool")}

\* JSON documents a client can post
Bodies ==
    {Null, Num, Str(""), Str("echo"), Arr} \cup
    {Obj([id |-> id, tool |-> tool, params |-> params]) :
         id \in IdMembers, tool \in ToolMembers,
         params \in {U, Num, Obj([page_id |-> Num])}}

InitEnvelope ==
    /\ ParkedEarlier
    /\ ParkedLast
    /\ ParkedLimiter
    /\ ParkedSettings
    /\ \E body \in Bodies, ran \in {Return("result-1"), Throw(PlainError("boom"))},
          gate \in {"ok", "origin", "rate"} :
           f_args = [kind |-> "post_mcp", body |-> body, ran |-> ran, gate |-> gate]
    /\ f_result = [kind |-> "none"]

PostMcp ==
    /\ f_result.kind = "none"
    /\ f_result' = postMcp(f_args.gate # "origin", f_args.gate # "rate",
                           f_args.body, f_args.ran)
    /\ UNCHANGED <<f_args, rl, sc>>
    /\ UNCHANGED <<earlierVars, lastVars>>

NextEnvelope == PostMcp

SpecEnvelope == InitEnvelope /\ [][NextEnvelope]_vars

---------------------------------------------------------------------------
(* SpecSanitize: the logger's redaction, logger.ts.  A key is the sequence  *)
(* of its characters; values are JavaScript values as in the tools above,   *)
(* with arrays and null added.                                              *)

ArrOf(items) == [t |-> "array", items |-> items]

UpperLetters ==
    <<"A", "B", "C", "D", "E", "F", "G", "H", "I", "J", "K", "L", "M",
      "N", "O", "P", "Q", "R", "S", "T", "U", "V", "W", "X", "Y", "Z">>

LowerLetters ==
    <<"a", "b", "c", "d", "e", "f", "g", "h", "i", "j", "k", "l", "m",
      "n", "o", "p", "q", "r", "s", "t", "u", "v", "w", "x", "y", "z">>

\* String.prototype.toLowerCase
toLowerCase(text) ==
    [i \in 1..Len(text) |->
        IF \E j \in 1..Len(UpperLetters) : UpperLetters[j] = text[i]
        THEN LowerLetters[CHOOSE j \in 1..Len(UpperLetters) : UpperLetters[j] = text[i]]
        ELSE text[i]]

\* String.prototype.includes
includes(text, needle) ==
    \E i \in 1..(Len(text) - Len(needle) + 1) :
        SubSeq(text, i, i + Len(needle) - 1) = needle

redactKey_CaseSensitive(key) ==
    \/ includes(key, <<"t", "o", "k", "e", "n">>)
    \/ includes(key, <<"s", "e", "c", "r", "e", "t">>)

\* logger.ts:159
redactKey(key) ==
    \/ includes(toLowerCase(key), <<"t", "o", "k", "e", "n">>)
    \/ includes(toLowerCase(key), <<"s", "e", "c", "r", "e", "t">>)

\* logger.ts:148-168
RECURSIVE sanitize(_)
sanitize(value) ==
    IF value.t \notin {"object", "array"}
    THEN value
    ELSE IF value.t = "array"
    THEN ArrOf([i \in DOMAIN value.items |-> sanitize(value.items[i])])
    ELSE Obj([key \in DOMAIN value.f |->
                 IF redactKey(key) THEN Str("[redacted]")
                 ELSE IF value.f[key].t \in {"object", "array", "null"}
                 THEN sanitize(value.f[key])
                 ELSE value.f[key]])

\* logger.ts:170-186: the entry pushed on the buffer is the one handed to
\* every listener
append(entry) ==
    [buffered |->
         [entry EXCEPT !.details = IF entry.details.t = "undefined" THEN U
                                   ELSE sanitize(entry.details)],
     delivered |->
         [entry EXCEPT !.details = IF entry.details.t = "undefined" THEN U
                                   ELSE sanitize(entry.details)]]

\* logger.ts:195-204: RequestLogger.log
log(level, message, details) ==
    append([level |-> level, message |-> message, details |-> details])

Key_user == <<"u", "s", "e", "r">>
Key_tok == <<"t", "o", "k">>
Key_nested == <<"n", "e", "s", "t", "e", "d">>
Key_list == <<"l", "i", "s", "t">>
Key_accessToken == <<"a", "c", "c", "e", "s", "s", "T", "o", "k", "e", "n">>
Key_APP_SECRET == <<"A", "P", "P", "_", "S", "E", "C", "R", "E", "T">>
Key_page_token == <<"p", "a", "g", "e", "_", "t", "o", "k", "e", "n">>

\* details with a credential at depth one, inside a nested object and
\* inside an object of an array; `a` sits under a key that names none
Details(a, b, c, d) ==
    Obj((Key_user :> a) @@ (Key_tok :> Null) @@ (Key_accessToken :> b) @@
        (Key_nested :>
            Obj((Key_APP_SECRET :> c) @@
                (Key_list :> ArrOf(<<Obj((Key_page_token :> d) @@ (Key_user :> a)),
                                     Str("v1")>>)))))

LoggedDetails ==
    {U} \cup
    { Details(a, b, c, d) :
          a \in {Str("v1"), Str("v2")},
          b \in {Str("EAAB-1"), Str("EAAB-2"), Obj(Key_user :> Str("EAAB-3"))},
          c \in {Str("s3cr3t-1"), Str("s3cr3t-2")},
          d \in {Str("EAAP-1"), Num} }

InitSanitize ==
    /\ ParkedEarlier
    /\ ParkedLast
    /\ ParkedLimiter
    /\ ParkedSettings
    /\ \E details \in LoggedDetails, other \in LoggedDetails :
           f_args = [kind |-> "log", details |-> details, other |-> other]
    /\ f_result = [kind |-> "none"]

\* two runs of logger.info with the two details
LogBoth ==
    /\ f_result.kind = "none"
    /\ f_result' = [kind |-> "done",
                    first |-> log("info", "Tool execution complete", f_args.details),
                    second |-> log("info", "Tool execution complete", f_args.other)]
    /\ UNCHANGED <<f_args, rl, sc>>
    /\ UNCHANGED <<earlierVars, lastVars>>

NextSanitize == LogBoth

SpecSanitize == InitSanitize /\ [][NextSanitize]_vars

---------------------------------------------------------------------------
(* SpecLimiter: the rate limiter of POST /mcp under any sequence of call    *)
(* times                                                                    *)

\* utils.ts:107: const windowMs = 60_000
windowMs == 60000

\* checks made in one run
MaxChecks == 5

\* the clock moves in thirds of the window
LimiterStep == windowMs \div 3

\* Math.ceil(ms / 1000)
CeilSec(ms) == (ms + 999) \div 1000

\* utils.ts:112-117: the window is current
checkInWindow(limit, windowStart, count, t) ==
    IF count >= limit
    THEN [windowStart |-> windowStart, count |-> count, allowed |-> FALSE,
          retryAfterSec |-> IF CeilSec(windowMs - (t - windowStart)) < 1 THEN 1
                            ELSE CeilSec(windowMs - (t - windowStart))]
    ELSE [windowStart |-> windowStart, count |-> count + 1, allowed |-> TRUE,
          retryAfterSec |-> 0]

\* utils.ts:103-118: the limiter's two fields after the call, and its result
check(limit, windowStart, count, t) ==
    IF limit <= 0
    THEN [windowStart |-> windowStart, count |-> count, allowed |-> TRUE,
          retryAfterSec |-> 0]
    ELSE IF t - windowStart >= windowMs
    THEN checkInWindow(limit, t, 0, t)
    ELSE checkInWindow(limit, windowStart, count, t)

\* the limiter as constructed (utils.ts:100-101), the configured limit, a
\* clock well past the epoch, the times of the admitted calls so far
InitLimiter ==
    /\ ParkedEarlier
    /\ ParkedLast
    /\ ParkedCall
    /\ ParkedSettings
    /\ \E limit \in 0..3 :
           rl = [kind |-> "limiter", limit |-> limit, windowStart |-> 0, count |-> 0,
                 now |-> 2 * windowMs, admitted |-> <<>>, checks |-> 0,
                 last |-> [kind |-> "none"]]

LimiterTick ==
    /\ rl.now < 4 * windowMs
    /\ rl' = [rl EXCEPT !.now = rl.now + LimiterStep, !.last = [kind |-> "none"]]
    /\ UNCHANGED <<f_args, f_result, sc>>
    /\ UNCHANGED <<earlierVars, lastVars>>

Checked(r) ==
    [rl EXCEPT !.windowStart = r.windowStart,
               !.count = r.count,
               !.admitted = IF r.allowed THEN Append(rl.admitted, rl.now) ELSE rl.admitted,
               !.checks = rl.checks + 1,
               !.last = [kind |-> "check", allowed |-> r.allowed,
                         retryAfterSec |-> r.retryAfterSec, countBefore |-> rl.count,
                         count |-> r.count]]

\* index.ts:159-160: rateLimiter.check(limit) with now = Date.now()
LimiterCheck ==
    /\ rl.checks < MaxChecks
    /\ rl' = Checked(check(rl.limit, rl.windowStart, rl.count, rl.now))
    /\ UNCHANGED <<f_args, f_result, sc>>
    /\ UNCHANGED <<earlierVars, lastVars>>

NextLimiter == LimiterTick \/ LimiterCheck

SpecLimiter == InitLimiter /\ [][NextLimiter]_vars

---------------------------------------------------------------------------
(* SpecSettings: the settings cache of index.ts under requests whose awaits *)
(* interleave: plain requests, which load the settings and are evaluated    *)
(* with them, and one POST /api/settings                                    *)

\* index.ts:42: const SETTINGS_CACHE_TTL = 30_000
SETTINGS_CACHE_TTL == 30000

\* requests in one run
NRequests == 3

\* clock steps of half a TTL, this many
MaxSettingsTicks == 2

NoSettings == "none"

\* index.ts:48: the cache holds a value younger than the TTL
CacheFresh(cache, t) ==
    cache.present /\ t - cache.fetchedAt < SETTINGS_CACHE_TTL

Cached(value, t) == [present |-> TRUE, value |-> value, fetchedAt |-> t]

NewRequest == [kind |-> "none", pc |-> "idle", stored |-> NoSettings,
               settings |-> NoSettings, afterPost |-> FALSE]

\* process start: cachedSettings = null (index.ts:43); the KV holds a
\* settings record or none
InitSettings ==
    /\ ParkedEarlier
    /\ ParkedLast
    /\ ParkedCall
    /\ ParkedLimiter
    /\ \E kv \in {NoSettings, "S0"} :
           sc = [kind |-> "settings", kv |-> kv,
                 cache |-> [present |-> FALSE, value |-> NoSettings, fetchedAt |-> 0],
                 now |-> 0, posted |-> FALSE,
                 reqs |-> [r \in 1..NRequests |-> NewRequest]]

\* where a request goes once loadSettings has returned
Loaded(kind) == IF kind = "post" THEN "body" ELSE "evaluated"

\* index.ts:81 with 47-51: a request arrives and calls loadSettings, which
\* returns the cached value or awaits the KV read
ReqStart(r, kind) ==
    /\ sc.reqs[r].pc = "idle"
    /\ kind = "post" => \A q \in 1..NRequests : sc.reqs[q].kind # "post"
    /\ sc' = [sc EXCEPT !.reqs[r] =
                 IF CacheFresh(sc.cache, sc.now)
                 THEN [kind |-> kind, pc |-> Loaded(kind), stored |-> NoSettings,
                       settings |-> sc.cache.value, afterPost |-> sc.posted]
                 ELSE [kind |-> kind, pc |-> "get", stored |-> NoSettings,
                       settings |-> NoSettings, afterPost |-> sc.posted]]
    /\ UNCHANGED <<f_args, f_result, rl>>
    /\ UNCHANGED <<earlierVars, lastVars>>

\* storage.ts getSettings: the KV serves the read
KvGetSettings(r) ==
    /\ sc.reqs[r].pc = "get"
    /\ sc' = [sc EXCEPT !.reqs[r].stored = sc.kv, !.reqs[r].pc = "resume"]
    /\ UNCHANGED <<f_args, f_result, rl>>
    /\ UNCHANGED <<earlierVars, lastVars>>

\* index.ts:51-63: loadSettings resumes with what the read returned and
\* writes the cache
LoadResume(r) ==
    /\ sc.reqs[r].pc = "resume"
    /\ \E value \in {IF sc.reqs[r].stored # NoSettings THEN sc.reqs[r].stored
                     ELSE "defaults"} :
           sc' = [sc EXCEPT !.cache = Cached(value, sc.now),
                            !.reqs[r].settings = value,
                            !.reqs[r].pc = Loaded(sc.reqs[r].kind)]
    /\ UNCHANGED <<f_args, f_result, rl>>
    /\ UNCHANGED <<earlierVars, lastVars>>

\* index.ts:202-225: POST /api/settings has read its body and the KV put of
\* saveSettings takes effect
PostSave(r) ==
    /\ sc.reqs[r].pc = "body"
    /\ sc' = [sc EXCEPT !.kv = "S1", !.reqs[r].pc = "saved"]
    /\ UNCHANGED <<f_args, f_result, rl>>
    /\ UNCHANGED <<earlierVars, lastVars>>

\* index.ts:226-228: the handler resumes, writes the cache and answers
PostFinish(r) ==
    /\ sc.reqs[r].pc = "saved"
    /\ sc' = [sc EXCEPT !.cache = Cached("S1", sc.now), !.posted = TRUE,
                        !.reqs[r].pc = "done"]
    /\ UNCHANGED <<f_args, f_result, rl>>
    /\ UNCHANGED <<earlierVars, lastVars>>

SettingsTick ==
    /\ sc.now < MaxSettingsTicks * (SETTINGS_CACHE_TTL \div 2)
    /\ sc' = [sc EXCEPT !.now = sc.now + SETTINGS_CACHE_TTL \div 2]
    /\ UNCHANGED <<f_args, f_result, rl>>
    /\ UNCHANGED <<earlierVars, lastVars>>

NextSettings ==
    \/ \E r \in 1..NRequests, kind \in {"plain", "post"} : ReqStart(r, kind)
    \/ \E r \in 1..NRequests : KvGetSettings(r)
    \/ \E r \in 1..NRequests : LoadResume(r)
    \/ \E r \in 1..NRequests : PostSave(r)
    \/ \E r \in 1..NRequests : PostFinish(r)
    \/ SettingsTick

SpecSettings == InitSettings /\ [][NextSettings]_vars

---------------------------------------------------------------------------
(* SpecAdmin: the routes of the worker that the admin mode is about, for    *)
(* every Authorization header and setting of REQUIRE_ADMIN and ADMIN_BEARER *)

\* String.prototype.trim on a sequence of characters
RECURSIVE trim(_)
trim(text) ==
    IF text = <<>> THEN text
    ELSE IF Head(text) = " " THEN trim(Tail(text))
    ELSE IF text[Len(text)] = " " THEN trim(SubSeq(text, 1, Len(text) - 1))
    ELSE text

\* an Authorization header: its first seven characters and the rest
Header(prefix, rest) == [present |-> TRUE, prefix |-> prefix, rest |-> rest]

NoHeader == [present |-> FALSE]

\* utils.ts:83-93; adminBearer is env.ADMIN_BEARER, set or not
ensureAdmin(header, requireAdmin, adminBearer) ==
    IF requireAdmin # "1" THEN TRUE
    ELSE IF ~header.present THEN FALSE
    ELSE IF header.prefix # "Bearer " THEN FALSE
    ELSE /\ Len(trim(header.rest)) > 0
         /\ adminBearer.set
         /\ trim(header.rest) = adminBearer.value

\* what a route answers: the status, whether the body carries content of
\* the server, whether the KV store was written
Answer(status, disclosed, changed) ==
    [kind |-> "done", status |-> status, disclosed |-> disclosed, changed |-> changed]

\* a route that calls ensureAdmin first (index.ts:184, 199, 232, 257, 277)
guarded(admin, answer) == IF admin THEN answer ELSE Answer(401, FALSE, FALSE)

\* index.ts:104-121, 183-296: the routes under /ui/, /api/ and /oauth/start
route(method, path, admin) ==
    CASE path \in {"/ui/", "/ui/index.html", "/ui/app.js", "/ui/app.css"} ->
             Answer(200, TRUE, FALSE)
      [] path = "/ui/other" -> Answer(404, FALSE, FALSE)
      [] method = "GET" /\ path = "/api/settings" ->
             guarded(admin, Answer(200, TRUE, FALSE))
      [] method = "POST" /\ path = "/api/settings" ->
             guarded(admin, Answer(200, TRUE, TRUE))
      [] method = "GET" /\ path = "/api/logs/stream" ->
             guarded(admin, Answer(200, TRUE, FALSE))
      [] method = "POST" /\ path = "/api/auth/revoke" ->
             guarded(admin, Answer(200, FALSE, TRUE))
      [] method = "GET" /\ path = "/api/tools" -> Answer(200, TRUE, FALSE)
      [] method = "GET" /\ path = "/oauth/start" ->
             guarded(admin, Answer(302, TRUE, TRUE))
      [] OTHER -> Answer(404, FALSE, FALSE)

AdminSecret == <<"s", "3">>

Headers ==
    {NoHeader} \cup
    {Header(prefix, rest) :
         prefix \in {"Bearer ", "Basic s3"},
         rest \in {<<>>, <<" ">>, AdminSecret, <<" ", "s", "3", " ">>, <<"x">>}}

AdminRoutes ==
    {<<"GET", path>> :
         path \in {"/ui/", "/ui/app.js", "/ui/other", "/api/settings", "/api/logs/stream",
                   "/api/tools", "/oauth/start"}} \cup
    {<<"POST", "/api/settings">>, <<"POST", "/api/auth/revoke">>}

InitAdmin ==
    /\ ParkedEarlier
    /\ ParkedLast
    /\ ParkedLimiter
    /\ ParkedSettings
    /\ \E r \in AdminRoutes, header \in Headers, requireAdmin \in {"", "1"},
          adminBearer \in {[set |-> FALSE, value |-> <<>>], [set |-> TRUE, value |-> <<>>],
                           [set |-> TRUE, value |-> AdminSecret]} :
           f_args = [kind |-> "route", method |-> r[1], path |-> r[2], header |-> header,
                     requireAdmin |-> requireAdmin, adminBearer |-> adminBearer]
    /\ f_result = [kind |-> "none"]

Route ==
    /\ f_result.kind = "none"
    /\ f_result' = route(f_args.method, f_args.path,
                         ensureAdmin(f_args.header, f_args.requireAdmin,
                                     f_args.adminBearer))
    /\ UNCHANGED <<f_args, rl, sc>>
    /\ UNCHANGED <<earlierVars, lastVars>>

NextAdmin == Route

SpecAdmin == InitAdmin /\ [][NextAdmin]_vars

---------------------------------------------------------------------------
(* SpecPkce: the PKCE verifier and challenge, fb/oauth.ts:16-34.  Strings   *)
(* are sequences of characters, buffers sequences of bytes.                 *)

Digits == <<"0", "1", "2", "3", "4", "5", "6", "7", "8", "9">>

\* the alphabet of btoa
Base64Chars == UpperLetters \o LowerLetters \o Digits \o <<"+", "/">>

\* btoa of the binary string of oauth.ts:29-32, whose character codes are
\* the bytes of the buffer
RECURSIVE btoa(_)
btoa(bytes) ==
    IF bytes = <<>> THEN <<>>
    ELSE IF Len(bytes) = 1
    THEN <<Base64Chars[bytes[1] \div 4 + 1],
           Base64Chars[(bytes[1] % 4) * 16 + 1], "=", "=">>
    ELSE IF Len(bytes) = 2
    THEN <<Base64Chars[bytes[1] \div 4 + 1],
           Base64Chars[(bytes[1] % 4) * 16 + bytes[2] \div 16 + 1],
           Base64Chars[(bytes[2] % 16) * 4 + 1], "=">>
    ELSE <<Base64Chars[bytes[1] \div 4 + 1],
           Base64Chars[(bytes[1] % 4) * 16 + bytes[2] \div 16 + 1],
           Base64Chars[(bytes[2] % 16) * 4 + bytes[3] \div 64 + 1],
           Base64Chars[(bytes[3] % 64) + 1]>>
         \o btoa(SubSeq(bytes, 4, Len(bytes)))

\* String.prototype.replace with a global pattern of one character
replaceAll(text, from, to) ==
    [i \in 1..Len(text) |-> IF text[i] = from THEN to ELSE text[i]]

\* .replace(/=+$/, '')
RECURSIVE stripPadding(_)
stripPadding(text) ==
    IF text # <<>> /\ text[Len(text)] = "="
    THEN stripPadding(SubSeq(text, 1, Len(text) - 1))
    ELSE text

base64UrlEncode_KeepsPadding(buffer) ==
    replaceAll(replaceAll(btoa(buffer), "+", "-"), "/", "_")

\* oauth.ts:28-34
base64UrlEncode(buffer) ==
    stripPadding(replaceAll(replaceAll(btoa(buffer), "+", "-"), "/", "_"))

\* oauth.ts:16-20; `random` is what crypto.getRandomValues filled in
generateCodeVerifier(random) == base64UrlEncode(random)

\* the code of a character of a verifier
CharCode(c) ==
    IF \E i \in 1..Len(UpperLetters) : UpperLetters[i] = c
    THEN 64 + (CHOOSE i \in 1..Len(UpperLetters) : UpperLetters[i] = c)
    ELSE IF \E i \in 1..Len(LowerLetters) : LowerLetters[i] = c
    THEN 96 + (CHOOSE i \in 1..Len(LowerLetters) : LowerLetters[i] = c)
    ELSE IF \E i \in 1..Len(Digits) : Digits[i] = c
    THEN 47 + (CHOOSE i \in 1..Len(Digits) : Digits[i] = c)
    ELSE IF c = "-" THEN 45
    ELSE IF c = "_" THEN 95
    ELSE IF c = "=" THEN 61
    ELSE 63

\* new TextEncoder().encode(verifier)
encode(text) == [i \in 1..Len(text) |-> CharCode(text[i])]

RECURSIVE SumBytes(_)
SumBytes(bytes) == IF bytes = <<>> THEN 0 ELSE Head(bytes) + SumBytes(Tail(bytes))

\* crypto.subtle.digest('SHA-256', data): a fixed function of the data to a
\* buffer; two bytes of mixing stand for the 32 of SHA-256 (32 = 2 mod 3)
digest(data) ==
    <<(SumBytes(data) * 31 + Len(data) * 7) % 256,
      (SumBytes(data) * 17 + data[1] * 5 + 251) % 256>>

\* oauth.ts:22-26
createCodeChallenge(verifier) == base64UrlEncode(digest(encode(verifier)))

\* the bytes the random source is sampled over: they give every kind of
\* base64 digit, '+' and '/' included
SampleBytes == {0, 65, 251, 255}

MaxRandomLen == 4

RandomBuffers ==
    UNION {[1..n -> SampleBytes] : n \in 1..MaxRandomLen}

InitPkce ==
    /\ ParkedEarlier
    /\ ParkedLast
    /\ ParkedLimiter
    /\ ParkedSettings
    /\ \E random \in RandomBuffers : f_args = [kind |-> "pkce", random |-> random]
    /\ f_result = [kind |-> "none"]

\* index.ts:281-282: the verifier is generated and its challenge derived;
\* the challenge of the same verifier is derived once more
Pkce(verifier) ==
    /\ f_result.kind = "none"
    /\ f_result' = [kind |-> "done", verifier |-> verifier,
                    challenge |-> createCodeChallenge(verifier),
                    again |-> createCodeChallenge(verifier)]
    /\ UNCHANGED <<f_args, rl, sc>>
    /\ UNCHANGED <<earlierVars, lastVars>>

NextPkce == Pkce(generateCodeVerifier(f_args.random))

SpecPkce == InitPkce /\ [][NextPkce]_vars

---------------------------------------------------------------------------
(* SpecSetup: sseResponse with any handler its signature accepts, one step  *)
(* per task: the queued microtask that calls the handler, the assignment    *)
(* of the cleanup once the handler's result is there, and the handler       *)
(* failures, peer cancellations and timer ticks that come in between.       *)

\* sse.ts:61: a handler returns its cleanup at once (the worker's own,
\* index.ts:134-144), returns a promise of it, or throws; each has started
\* its interval by then
Handlers == {"sync", "async", "throws"}

\* one admitted GET /mcp/sse: the session, the handler and whether its
\* cleanup throws after clearing the interval, where the microtask of
\* sse.ts:72-82 stands (queued | resume | pending | done), the interval
\* (none | armed | cleared)
Setup(s, handler, cleanupThrows, pc, timer) ==
    [endpoint |-> "mcp", s |-> s, handler |-> handler,
     cleanupThrows |-> cleanupThrows, pc |-> pc, timer |-> timer]

sessionOnClose_NoFinally(st) ==
    [st EXCEPT !.s = IF st.s.cleanup /\ st.cleanupThrows
                     THEN [st.s EXCEPT !.cleanupRuns = @ + 1]
                     ELSE onClose(st.s),
               !.timer = IF st.s.cleanup /\ st.timer = "armed" THEN "cleared"
                         ELSE st.timer]

\* sse.ts:65-71 with index.ts:142-144: cleanup?.() clears the interval, and
\* the caller's onClose runs in the finally whether or not cleanup threw
sessionOnClose(st) ==
    [st EXCEPT !.s = onClose(st.s),
               !.timer = IF st.s.cleanup /\ st.timer = "armed" THEN "cleared"
                         ELSE st.timer]

\* sse.ts:43-48: controller.close() is not reached when onClose threw
sessionClose(st) ==
    IF st.s.closed THEN st
    ELSE [sessionOnClose([st EXCEPT !.s.closed = TRUE])
             EXCEPT !.s.ended = ~(st.s.cleanup /\ st.cleanupThrows)]

sessionCancel_Unguarded(st) == sessionOnClose([st EXCEPT !.s.closed = TRUE])

\* sse.ts:16-21
sessionCancel(st) ==
    IF st.s.closed THEN st
    ELSE sessionOnClose([st EXCEPT !.s.closed = TRUE])

\* sse.ts:73-74 and 78-81: the microtask calls the handler, which starts its
\* interval (index.ts:139-141); a throw is caught and the session closed
handlerRuns(st) ==
    CASE st.handler = "sync" -> [st EXCEPT !.timer = "armed", !.pc = "resume"]
      [] st.handler = "async" -> [st EXCEPT !.timer = "armed", !.pc = "pending"]
      [] st.handler = "throws" ->
             sessionClose([st EXCEPT !.timer = "armed", !.pc = "done"])

\* sse.ts:75-77: the awaited result is a function
assignCleanup(st) == [st EXCEPT !.s.cleanup = TRUE, !.pc = "done"]

\* sse.ts:74-81: the promise an async handler returned settles
handlerSettles(st, fulfilled) ==
    IF fulfilled THEN assignCleanup(st) ELSE sessionClose([st EXCEPT !.pc = "done"])

\* a microtask of some session is still to run: no timer, peer event or
\* promise of I/O is served before it
MicrotaskPending ==
    \E i \in 1..Len(streams) : streams[i].pc \in {"queued", "resume"}

InitSetup ==
    /\ ParkedClassify
    /\ ParkedGraph
    /\ ParkedSys
    /\ ParkedExchange /\ ParkedEnsure /\ ParkedCallback /\ ParkedSession /\ ParkedLater
    /\ activeMcpStreams = 0
    /\ streams = <<>>
    /\ sse_obs = [kind |-> "none"]
    /\ sse_now = 0

\* what the last step was, and the connection it found closed, if it did
SetupObs(kind, st) ==
    IF st.s.closed THEN [kind |-> kind, closed |-> TRUE, handler |-> st.handler]
    ELSE [kind |-> kind, closed |-> FALSE]

\* connection i goes from its state to `after`; index.ts:145-147 runs if the
\* session's onClose ran
SetupStep(kind, i, after) ==
    /\ streams' = [streams EXCEPT ![i] = after]
    /\ activeMcpStreams' = release(activeMcpStreams, streams[i].s, after.s)
    /\ sse_obs' = SetupObs(kind, streams[i])
    /\ UNCHANGED sse_now
    /\ UNCHANGED classifyVars
    /\ UNCHANGED graphVars
    /\ UNCHANGED sysVars
    /\ UNCHANGED <<exchangeVars, ensureVars, callbackVars, sessionVars, laterVars>>

\* index.ts:127-147 up to the return of sseResponse: the microtask is queued
SetupAdmit(handler, cleanupThrows) ==
    /\ cleanupThrows => handler = "sync"
    /\ tooManyStreams(activeMcpStreams) \/ Len(streams) < MaxConns
    /\ IF tooManyStreams(activeMcpStreams)
       THEN /\ sse_obs' = [kind |-> "refused", closed |-> FALSE]
            /\ UNCHANGED <<activeMcpStreams, streams>>
       ELSE /\ activeMcpStreams' = activeMcpStreams + 1
            /\ streams' = Append(streams,
                   Setup(Session(FALSE, <<>>, FALSE, FALSE, 0, 0), handler,
                         cleanupThrows, "queued", "none"))
            /\ sse_obs' = [kind |-> "admitted", closed |-> FALSE]
    /\ UNCHANGED sse_now
    /\ UNCHANGED classifyVars
    /\ UNCHANGED graphVars
    /\ UNCHANGED sysVars
    /\ UNCHANGED <<exchangeVars, ensureVars, callbackVars, sessionVars, laterVars>>

\* sse.ts:72-74
SetupRun(i) ==
    /\ streams[i].pc = "queued"
    /\ SetupStep("step", i, handlerRuns(streams[i]))

\* sse.ts:74-77 for a handler that returned its cleanup at once
SetupResume(i) ==
    /\ streams[i].pc = "resume"
    /\ SetupStep("step", i, assignCleanup(streams[i]))

\* sse.ts:74-81 for a handler that returned a promise
HandlerSettles(i, fulfilled) ==
    /\ ~MicrotaskPending
    /\ streams[i].pc = "pending"
    /\ SetupStep("step", i, handlerSettles(streams[i], fulfilled))

\* the peer of connection i goes away
SetupCancel(i) ==
    /\ ~MicrotaskPending
    /\ SetupStep("cancel", i, sessionCancel(streams[i]))

\* index.ts:139-141: the interval of connection i fires; send returns at
\* once on a closed session (sse.ts:25)
SetupTick(i) ==
    /\ ~MicrotaskPending
    /\ streams[i].timer = "armed"
    /\ SetupStep("tick", i, streams[i])

NextSetup ==
    \/ \E handler \in Handlers, cleanupThrows \in BOOLEAN :
           SetupAdmit(handler, cleanupThrows)
    \/ \E i \in 1..Len(streams) : SetupRun(i)
    \/ \E i \in 1..Len(streams) : SetupResume(i)
    \/ \E i \in 1..Len(streams), fulfilled \in BOOLEAN : HandlerSettles(i, fulfilled)
    \/ \E i \in 1..Len(streams) : SetupCancel(i)
    \/ \E i \in 1..Len(streams) : SetupTick(i)

SpecSetup == InitSetup /\ [][NextSetup]_vars

---------------------------------------------------------------------------
(* SpecOAuth: GET /oauth/start and GET /oauth/callback over the store, the  *)
(* callback one step per await, with time passing beyond the TTL of the     *)
(* pending authorizations.                                                  *)

\* storage.ts:70: expirationTtl of an oauth:<state> key, seconds
OAUTH_STATE_TTL == 600

\* how far the clock is advanced at once, ms, and how often
OaStep == (OAUTH_STATE_TTL * 1000) \div 2

MaxOAuthTicks == 2

\* the values crypto.randomUUID() returns, in the order drawn
IssuableStates == <<"s1", "s2">>

\* the states a callback can present: one never issued, and the issued
PresentedStates == {"s0", "s1", "s2"}

\* the origins the worker is reached at; the callbacks come in at the
\* second
Origins == {"https://a.example", "https://b.example"}

CallbackOrigin == "https://b.example"

\* a request for /oauth/start: the origin it is made at, and what
\* crypto.getRandomValues fills the verifier's buffer with
StartRequests ==
    {[origin |-> "https://a.example", random |-> <<0, 65>>],
     [origin |-> "https://b.example", random |-> <<251, 255>>]}

OaIds == 1..2

\* index.ts:280
redirectUriOf(envRedirect, origin) ==
    IF envRedirect # Undefined THEN envRedirect ELSE <<origin, "/oauth/callback">>

\* oauth.ts:36-50: the query of the authorization URL
buildOAuthUrl(state, codeChallenge, redirectUri) ==
    [redirect_uri |-> redirectUri, state |-> state, response_type |-> "code",
     code_challenge |-> codeChallenge, code_challenge_method |-> "S256"]

\* types.ts OAuthStateRecord
OAuthStateRecord(codeVerifier, createdAt, redirectUri) ==
    [codeVerifier |-> codeVerifier, createdAt |-> createdAt,
     redirectUri |-> redirectUri]

\* KVNamespace.get at time t (ms): a key is not readable from its
\* expiration on
kvGet(entry, t) ==
    IF entry.present /\ (entry.expiration = NoNumber \/ t < entry.expiration * 1000)
    THEN entry
    ELSE NoEntry

exchangeRequest_OwnOrigin(code, stored, origin) ==
    [redirect_uri |-> redirectUriOf(Undefined, origin), code |-> code,
     code_verifier |-> stored.codeVerifier]

\* index.ts:323 with oauth.ts:65-69: the form posted to the token endpoint by
\* a callback that was reached at `origin`
exchangeRequest(code, stored, origin) ==
    [redirect_uri |-> stored.redirectUri, code |-> code,
     code_verifier |-> stored.codeVerifier]

callbackWrites_ActiveFirst == <<"active", "token">>

\* index.ts:325-326: the writes of a successful callback, in order
callbackWrites == <<"token", "active">>

\* what /oauth/start did for a state: the record stored, the URL issued,
\* and whether a callback has deleted the record since
NotIssued == [present |-> FALSE, consumed |-> FALSE]

\* the locals of one callback request
CbLocals(state, origin, stored, record, writes) ==
    [state |-> state, origin |-> origin, stored |-> stored, record |-> record,
     writes |-> writes]

InitOAuth ==
    /\ ParkedClassify
    /\ ParkedGraph
    /\ ParkedExchange /\ ParkedEnsure /\ ParkedSession /\ ParkedSse
    /\ ParkedCall /\ ParkedLimiter /\ ParkedSettings /\ ParkedLogger
    /\ now = 0
    /\ envHasSecret = FALSE
    /\ kvActiveUser = "uA"
    /\ kvUserToken =
           [u \in Users |->
               IF u = "uA"
               THEN KvPut(UserTokenRecord(UserTok("uA", "earlier"), "bearer", NoNumber,
                                          "uA"), NoNumber, NoNumber, 0)
               ELSE NoEntry]
    /\ kvPageToken = [p \in Pages |-> NoEntry]
    /\ kvOAuth = [st \in PresentedStates |-> NoEntry]
    /\ resp = [kind |-> "none"]
    /\ obs = [kind |-> "none"]
    /\ cb_pc = [r \in OaIds |-> "idle"]
    /\ cb_stored = [r \in OaIds |-> NoEntry]
    /\ issued = [st \in PresentedStates |-> NotIssued]

\* index.ts:276-296, for the k-th state drawn
OaStartAs(st, verifier, redirectUri) ==
    /\ kvOAuth' = [kvOAuth EXCEPT ![st] =
           KvPut(OAuthStateRecord(verifier, now, redirectUri), NoNumber,
                 OAUTH_STATE_TTL, now)]
    /\ issued' = [issued EXCEPT ![st] =
           [present |-> TRUE, consumed |-> FALSE,
            stored |-> OAuthStateRecord(verifier, now, redirectUri),
            url |-> buildOAuthUrl(st, createCodeChallenge(verifier), redirectUri)]]
    /\ obs' = [kind |-> "other"]
    /\ UNCHANGED <<cb_pc, cb_stored, now, envHasSecret, kvActiveUser, kvUserToken,
                   kvPageToken, resp>>
    /\ UNCHANGED classifyVars
    /\ UNCHANGED graphVars
    /\ UNCHANGED <<exchangeVars, ensureVars, sessionVars, sseVars>>
    /\ UNCHANGED <<f_args, f_result, rl, sc, logBuffer, listeners>>

OaStart(random, origin) ==
    \E k \in 1..Len(IssuableStates) :
        /\ ~issued[IssuableStates[k]].present
        /\ \A j \in 1..(k - 1) : issued[IssuableStates[j]].present
        /\ OaStartAs(IssuableStates[k], generateCodeVerifier(random),
                     redirectUriOf(Undefined, origin))

\* a step of callback r that leaves the store's credentials and the
\* pending authorizations as they are
OaLocal(r, pc, locals, seen) ==
    /\ cb_pc' = [cb_pc EXCEPT ![r] = pc]
    /\ cb_stored' = [cb_stored EXCEPT ![r] = locals]
    /\ obs' = seen
    /\ UNCHANGED <<now, envHasSecret, kvActiveUser, kvUserToken, kvPageToken, kvOAuth,
                   resp, issued>>
    /\ UNCHANGED classifyVars
    /\ UNCHANGED graphVars
    /\ UNCHANGED <<exchangeVars, ensureVars, sessionVars, sseVars>>
    /\ UNCHANGED <<f_args, f_result, rl, sc, logBuffer, listeners>>

\* index.ts:298-314
OaArrive(r, st, origin, errorParam, hasCode) ==
    /\ cb_pc[r] = "idle"
    /\ OaLocal(r, IF errorParam \/ ~hasCode THEN "answered400" ELSE "get",
               CbLocals(st, origin, NoEntry, NoEntry, <<>>),
               [kind |-> "other"])

\* storage.ts:75 and index.ts:316-321
OaGet(r) ==
    /\ cb_pc[r] = "get"
    /\ \E entry \in {kvGet(kvOAuth[cb_stored[r].state], now)} :
           OaLocal(r, IF entry.present THEN "delete" ELSE "answered400",
                   [cb_stored[r] EXCEPT !.stored = entry],
                   [kind |-> "get", r |-> r, found |-> entry.present,
                    wasIssued |-> issued[cb_stored[r].state].present,
                    wasConsumed |-> issued[cb_stored[r].state].consumed,
                    age |-> IF issued[cb_stored[r].state].present
                            THEN now - issued[cb_stored[r].state].stored.createdAt
                            ELSE 0])

\* storage.ts:76-79
OaDelete(r) ==
    /\ cb_pc[r] = "delete"
    /\ cb_pc' = [cb_pc EXCEPT ![r] = "exchange"]
    /\ kvOAuth' = [kvOAuth EXCEPT ![cb_stored[r].state] = NoEntry]
    /\ issued' = [issued EXCEPT ![cb_stored[r].state].consumed = TRUE]
    /\ obs' = [kind |-> "other"]
    /\ UNCHANGED <<cb_stored, now, envHasSecret, kvActiveUser, kvUserToken,
                   kvPageToken, resp>>
    /\ UNCHANGED classifyVars
    /\ UNCHANGED graphVars
    /\ UNCHANGED <<exchangeVars, ensureVars, sessionVars, sseVars>>
    /\ UNCHANGED <<f_args, f_result, rl, sc, logBuffer, listeners>>

\* index.ts:323-324 and 330-334: the token exchange and the profile fetch
\* (oauth.ts:161-177) have settled
OaExchanged(r, token, me) ==
    OaLocal(r, IF token.kind = "throw" \/ me.kind = "throw" THEN "answered500"
               ELSE "write",
            [cb_stored[r] EXCEPT !.record =
                IF token.kind = "throw" \/ me.kind = "throw" THEN NoEntry
                ELSE UserTokenRecord(token.value.accessToken, token.value.tokenType,
                                     token.value.expiresAt, me.value.data.id)],
            [kind |-> "exchange", r |-> r, state |-> cb_stored[r].state,
             origin |-> cb_stored[r].origin,
             sent |-> exchangeRequest("code", cb_stored[r].stored.value,
                                      cb_stored[r].origin),
             failed |-> token.kind = "throw" \/ me.kind = "throw"])

OaProfile(r, token, script) ==
    OaExchanged(r, token,
                IF token.kind = "throw" THEN NotCalled
                ELSE callGraph("/me", script, MeDocument(token.value.accessToken)))

OaExchange(r, u, tokResp, script) ==
    /\ cb_pc[r] = "exchange"
    /\ OaProfile(r, exchangeCodeForToken(u, tokResp, envHasSecret, UpgradeRefused, now),
                 script)

\* index.ts:325-329: the next write of a callback whose exchange and profile
\* fetch succeeded; after the last one it answers 200
OaWrite(r) ==
    /\ cb_pc[r] = "write"
    /\ \E w \in {callbackWrites[Len(cb_stored[r].writes) + 1]} :
           /\ kvUserToken' =
                  IF w = "token"
                  THEN saveUserToken(kvUserToken, cb_stored[r].record.userId,
                                     cb_stored[r].record, now)
                  ELSE kvUserToken
           /\ kvActiveUser' =
                  IF w = "active" THEN cb_stored[r].record.userId ELSE kvActiveUser
           /\ cb_stored' = [cb_stored EXCEPT ![r].writes = Append(@, w)]
    /\ cb_pc' = [cb_pc EXCEPT ![r] =
           IF Len(cb_stored[r].writes) + 1 = Len(callbackWrites) THEN "answered200"
           ELSE "write"]
    /\ obs' = [kind |-> "other"]
    /\ UNCHANGED <<now, envHasSecret, kvPageToken, kvOAuth, resp, issued>>
    /\ UNCHANGED classifyVars
    /\ UNCHANGED graphVars
    /\ UNCHANGED <<exchangeVars, ensureVars, sessionVars, sseVars>>
    /\ UNCHANGED <<f_args, f_result, rl, sc, logBuffer, listeners>>

OaTick ==
    /\ now < MaxOAuthTicks * OaStep
    /\ now' = now + OaStep
    /\ obs' = [kind |-> "other"]
    /\ UNCHANGED <<cb_pc, cb_stored, envHasSecret, kvActiveUser, kvUserToken,
                   kvPageToken, kvOAuth, resp, issued>>
    /\ UNCHANGED classifyVars
    /\ UNCHANGED graphVars
    /\ UNCHANGED <<exchangeVars, ensureVars, sessionVars, sseVars>>
    /\ UNCHANGED <<f_args, f_result, rl, sc, logBuffer, listeners>>

NextOAuth ==
    \/ \E q \in StartRequests : OaStart(q.random, q.origin)
    \/ \E r \in OaIds, st \in PresentedStates, errorParam \in BOOLEAN,
          hasCode \in BOOLEAN :
           OaArrive(r, st, CallbackOrigin, errorParam, hasCode)
    \/ \E r \in OaIds : OaGet(r)
    \/ \E r \in OaIds : OaDelete(r)
    \/ \E r \in OaIds, u \in Users, tokStatus \in {200, 400},
          script \in {NoScript, Exhausted} :
           OaExchange(r, u, TokenResponse(tokStatus, TRUE, NoNumber), script)
    \/ \E r \in OaIds : OaWrite(r)
    \/ OaTick

SpecOAuth == InitOAuth /\ [][NextOAuth]_vars

---------------------------------------------------------------------------
(* SpecLogs: the logger's buffer and listeners (logger.ts) with the         *)
(* sessions of GET /api/logs/stream: entries are appended before, between   *)
(* and after the subscriptions, and peers go away.  An entry is the number  *)
(* of its append.                                                           *)

\* logger.ts:144 has 500 and index.ts:237 asks for 200; three and two keep
\* the buffer's overflow and the backlog's cut within a few appends
MAX_LOGS == 3

\* fewer than the buffer holds, as 200 is fewer than 500
RecentLimit == MAX_LOGS - 1

\* entries appended in one run: enough to overflow the buffer, to subscribe
\* past the backlog's cut, and to append before and after a close
MaxEntries == MAX_LOGS + 2

\* connections of /api/logs/stream in one run
MaxLogStreams == 2

\* how an entry is written in a frame
EntryNames == <<"e1", "e2", "e3", "e4", "e5", "e6", "e7", "e8">>

\* logger.ts:175-178: push, then drop from the front what exceeds MAX_LOGS
pushEntry(buffer, entry) ==
    IF Len(buffer) + 1 > MAX_LOGS
    THEN SubSeq(Append(buffer, entry), Len(buffer) + 2 - MAX_LOGS, Len(buffer) + 1)
    ELSE Append(buffer, entry)

getRecentLogs_Oldest(buffer, limit) ==
    SubSeq(buffer, 1, IF limit < Len(buffer) THEN limit ELSE Len(buffer))

\* logger.ts:233-235: logBuffer.slice(-limit)
getRecentLogs(buffer, limit) ==
    SubSeq(buffer, IF limit < Len(buffer) THEN Len(buffer) - limit + 1 ELSE 1,
           Len(buffer))

\* logger.ts:237-238
subscribe(ls, listener) == ls \cup {listener}

\* logger.ts:239-241
unsubscribe(ls, listener) == ls \ {listener}

\* index.ts:239 and 242: session.send('log', entry)
sendLog(s, entry) == send(s, <<"log">>, JsonValue(<<EntryNames[entry]>>))

\* index.ts:238-240
RECURSIVE sendEach(_, _)
sendEach(s, entries) ==
    IF entries = <<>> THEN s ELSE sendEach(sendLog(s, Head(entries)), Tail(entries))

\* index.ts:236-240: the handler up to its subscription
logsBacklog(s, buffer) ==
    sendEach(send(s, <<"ready">>, JsonValue(<<"ts">>)),
             getRecentLogs(buffer, RecentLimit))

\* the number of the last entry appended
Appended == IF logBuffer = <<>> THEN 0 ELSE logBuffer[Len(logBuffer)]

\* one connection of /api/logs/stream: its session, whether the handler has
\* run, how many entries had been appended when it subscribed and when it
\* was closed
LogStream(s, pc, before, until) ==
    [endpoint |-> "logs", s |-> s, pc |-> pc, before |-> before, until |-> until]

InitLogs ==
    /\ ParkedClassify
    /\ ParkedGraph
    /\ ParkedSys
    /\ ParkedExchange /\ ParkedEnsure /\ ParkedCallback /\ ParkedSession
    /\ ParkedCall /\ ParkedLimiter /\ ParkedSettings /\ ParkedIssued
    /\ activeMcpStreams = 0
    /\ streams = <<>>
    /\ sse_obs = [kind |-> "none"]
    /\ sse_now = 0
    /\ logBuffer = <<>>
    /\ listeners = {}

\* logger.ts:170-186: an entry is appended and handed to every listener
LogAppend ==
    /\ Appended < MaxEntries
    /\ logBuffer' = pushEntry(logBuffer, Appended + 1)
    /\ streams' = [i \in 1..Len(streams) |->
           IF i \in listeners
           THEN [streams[i] EXCEPT !.s = sendLog(streams[i].s, Appended + 1)]
           ELSE streams[i]]
    /\ sse_obs' = [kind |-> "other"]
    /\ UNCHANGED <<activeMcpStreams, sse_now, listeners>>
    /\ UNCHANGED classifyVars
    /\ UNCHANGED graphVars
    /\ UNCHANGED sysVars
    /\ UNCHANGED <<exchangeVars, ensureVars, callbackVars, sessionVars>>
    /\ UNCHANGED <<f_args, f_result, rl, sc, issued>>

\* index.ts:231-254 up to the return of sseResponse, whose microtask is
\* queued (sse.ts:72)
LogsAdmit(admin) ==
    /\ ~admin \/ Len(streams) < MaxLogStreams
    /\ IF ~admin
       THEN /\ sse_obs' = [kind |-> "logs_stream", status |-> 401]
            /\ UNCHANGED streams
       ELSE /\ streams' = Append(streams,
                   LogStream(Session(FALSE, <<>>, FALSE, FALSE, 0, 0), "queued", 0, 0))
            /\ sse_obs' = [kind |-> "logs_stream", status |-> 200]
    /\ UNCHANGED <<activeMcpStreams, sse_now, logBuffer, listeners>>
    /\ UNCHANGED classifyVars
    /\ UNCHANGED graphVars
    /\ UNCHANGED sysVars
    /\ UNCHANGED <<exchangeVars, ensureVars, callbackVars, sessionVars>>
    /\ UNCHANGED <<f_args, f_result, rl, sc, issued>>

\* sse.ts:72-77 with index.ts:235-247: the microtask runs the handler, which
\* sends ready and the backlog and subscribes, and its cleanup is registered
LogsSetup(i) ==
    /\ streams[i].pc = "queued"
    /\ streams' = [streams EXCEPT ![i] =
           LogStream([logsBacklog(streams[i].s, logBuffer) EXCEPT !.cleanup = TRUE],
                     "done", Appended, 0)]
    /\ listeners' = subscribe(listeners, i)
    /\ sse_obs' = [kind |-> "other"]
    /\ UNCHANGED <<activeMcpStreams, sse_now, logBuffer>>
    /\ UNCHANGED classifyVars
    /\ UNCHANGED graphVars
    /\ UNCHANGED sysVars
    /\ UNCHANGED <<exchangeVars, ensureVars, callbackVars, sessionVars>>
    /\ UNCHANGED <<f_args, f_result, rl, sc, issued>>

\* sse.ts:16-21 and 65-71 with index.ts:244-246: the peer goes away and the
\* cleanup unsubscribes
LogsCancel(i) ==
    /\ \A j \in 1..Len(streams) : streams[j].pc = "done"
    /\ ~streams[i].s.closed
    /\ streams' = [streams EXCEPT ![i] =
           LogStream(cancel(streams[i].s), "done", streams[i].before, Appended)]
    /\ listeners' = IF cancel(streams[i].s).cleanupRuns > streams[i].s.cleanupRuns
                    THEN unsubscribe(listeners, i)
                    ELSE listeners
    /\ sse_obs' = [kind |-> "other"]
    /\ UNCHANGED <<activeMcpStreams, sse_now, logBuffer>>
    /\ UNCHANGED classifyVars
    /\ UNCHANGED graphVars
    /\ UNCHANGED sysVars
    /\ UNCHANGED <<exchangeVars, ensureVars, callbackVars, sessionVars>>
    /\ UNCHANGED <<f_args, f_result, rl, sc, issued>>

NextLogs ==
    \/ LogAppend
    \/ \E admin \in BOOLEAN : LogsAdmit(admin)
    \/ \E i \in 1..Len(streams) : LogsSetup(i)
    \/ \E i \in 1..Len(streams) : LogsCancel(i)

SpecLogs == InitLogs /\ [][NextLogs]_vars

---------------------------------------------------------------------------
(* SpecGraphLog: the log records of one callGraph invocation, graph.ts:69-135 *)

\* a call of logger.warn or logger.debug
LogRecord(level, message, details) ==
    [level |-> level, message |-> message, details |-> details]

\* Date.now() - started, graph.ts:81
Duration == "ms"

\* graph.ts:86-94, 102-106, 118-124, 131: what attempt k logs when it ends
\* with outcome o
attemptLogs(path, k, o) ==
    CASE o.kind = "http" /\ ~ResponseOk(o.status) ->
             <<LogRecord("warn", "Graph API call failed",
                         [fb_call |-> path, status |-> o.status, attempt |-> k,
                          duration |-> Duration,
                          retryable |-> extractGraphError(o.status, o.body).retryable])>>
      [] o.kind = "http" /\ ResponseOk(o.status) ->
             <<LogRecord("debug", "Graph API call succeeded",
                         [fb_call |-> path, status |-> o.status,
                          duration |-> Duration])>>
      [] o.kind = "timeout" ->
             <<LogRecord("warn", "Graph API request timed out",
                         [fb_call |-> path, attempt |-> k])>>
      [] OTHER -> <<>>

\* graph.ts:69-135: the records of every attempt the loop makes, by attempt
RECURSIVE callGraphLogs(_, _, _)
callGraphLogs(path, k, script) ==
    <<attemptLogs(path, k, script[k])>>
    \o IF AttemptStep(k, script[k]).action = "retry" /\ k + 1 <= MAX_RETRIES
       THEN callGraphLogs(path, k + 1, script)
       ELSE <<>>

LogPaths == {"/me", "/p1/feed"}

LogTokens == {"EAAB-user", "EAAB-page"}

LogOutcomes == {Ok200, H500, H400, TimeoutOutcome, TransportOutcome}

InitGraphLog ==
    /\ ParkedEarlier
    /\ ParkedLast
    /\ ParkedLimiter
    /\ ParkedSettings
    /\ \E path \in LogPaths, accessToken \in LogTokens,
          script \in [1..MAX_RETRIES -> LogOutcomes] :
           f_args = [kind |-> "callGraph", path |-> path, accessToken |-> accessToken,
                     script |-> script]
    /\ f_result = [kind |-> "none"]

\* graph.ts:38-141: the call runs to its end
CallGraphLogged ==
    /\ f_result.kind = "none"
    /\ f_result' = [kind |-> "done",
                    headers |-> [Authorization |-> <<"Bearer ", f_args.accessToken>>],
                    outcome |-> RunGraphFrom(1, f_args.script, NotClassified),
                    logs |-> callGraphLogs(f_args.path, 1, f_args.script)]
    /\ UNCHANGED <<f_args, rl, sc>>
    /\ UNCHANGED <<earlierVars, lastVars>>

NextGraphLog == CallGraphLogged

SpecGraphLog == InitGraphLog /\ [][NextGraphLog]_vars

---------------------------------------------------------------------------
(* SpecDispatchLog: dispatchTool's answer and its log records, mcp.ts:69-119 *)

\* mcp.ts:74-118: the records dispatchTool itself writes; the logger is
\* created at line 86, after the lookup has answered for an unknown tool
dispatchLogs(request, registered, ran) ==
    IF ~registered
    THEN <<>>
    ELSE IF ran.kind = "return"
    THEN <<LogRecord("info", "Tool execution complete", [status |-> 200])>>
    ELSE IF ran.value.kind = "ToolError"
    THEN <<LogRecord("warn", "Tool error", [code |-> ran.value.code])>>
    ELSE <<LogRecord("error", "Unhandled tool error", Undefined)>>

\* tool names a request can carry: registered, advertised by /api/tools but
\* not registered, and unknown
LoggedTools == {"echo", "fb.me", "fb.page_list", "fb.profile_post", "unknown.tool"}

InitDispatchLog ==
    /\ ParkedEarlier
    /\ ParkedLast
    /\ ParkedLimiter
    /\ ParkedSettings
    /\ \E id \in ReqIds, tool \in LoggedTools, ran \in HandlerOutcomes :
           f_args = [kind |-> "dispatchTool", request |-> Request(id, tool, U),
                     ran |-> IF tool \in Registry THEN ran ELSE NotCalled]
    /\ f_result = [kind |-> "none"]

\* mcp.ts:69-119
DispatchLogged ==
    /\ f_result.kind = "none"
    /\ f_result' = [kind |-> "done",
                    envelope |-> dispatchTool(f_args.request,
                                              f_args.request.tool \in Registry,
                                              f_args.ran).value,
                    logs |-> dispatchLogs(f_args.request,
                                          f_args.request.tool \in Registry, f_args.ran)]
    /\ UNCHANGED <<f_args, rl, sc>>
    /\ UNCHANGED <<earlierVars, lastVars>>

NextDispatchLog == DispatchLogged

SpecDispatchLog == InitDispatchLog /\ [][NextDispatchLog]_vars

---------------------------------------------------------------------------
(* SpecFetch: the worker's fetch handler from the settings load to the      *)
(* response, index.ts:75-352, with the KV store failing or not at each of   *)
(* the two places a request can touch it                                    *)

\* what a rejected KV operation throws
KvError == PlainError("KV request failed")

\* index.ts:47-64: the cache answers while it is fresh; otherwise the store
\* is read, and a failed read rejects
loadSettings(cacheFresh, readFails) ==
    IF cacheFresh THEN Return("cached")
    ELSE IF readFails THEN Throw(KvError)
    ELSE Return("stored")

\* index.ts:89-337: the try block.  POST /mcp carries a well-formed envelope,
\* and a store failure under the tool is caught by dispatchTool
\* (mcp.ts:96-117); the callback carries a code and a state; the routes that
\* write the store await the write
tryBlock(method, path, admin, kvFails) ==
    CASE method = "GET" /\ path = "/" -> Return(302)
      [] method = "GET" /\ path = "/health" -> Return(200)
      [] method = "POST" /\ path = "/mcp" -> Return(200)
      [] method = "GET" /\ path = "/oauth/callback" ->
             IF kvFails THEN Throw(KvError) ELSE Return(400)
      [] OTHER ->
             IF route(method, path, admin).changed /\ kvFails
             THEN Throw(KvError)
             ELSE Return(route(method, path, admin).status)

\* index.ts:338-351: the status the catch block answers with
catchBlock(error) ==
    IF error.kind = "ToolError" THEN 400
    ELSE IF {"status", "message"} \subseteq DOMAIN error THEN error.status
    ELSE 500

\* index.ts:75-352: a Response, or the exception the returned promise
\* rejects with
fetch(method, path, admin, cacheFresh, readFails, kvFails) ==
    IF loadSettings(cacheFresh, readFails).kind = "throw"
    THEN [kind |-> "exception", value |-> loadSettings(cacheFresh, readFails).value]
    ELSE IF method = "OPTIONS"
    THEN [kind |-> "response", status |-> 204]
    ELSE IF tryBlock(method, path, admin, kvFails).kind = "throw"
    THEN [kind |-> "response",
          status |-> catchBlock(tryBlock(method, path, admin, kvFails).value)]
    ELSE [kind |-> "response", status |-> tryBlock(method, path, admin, kvFails).value]

FetchRoutes ==
    {<<"OPTIONS", "/mcp">>, <<"POST", "/mcp">>, <<"GET", "/">>, <<"GET", "/health">>,
     <<"GET", "/ui/">>, <<"GET", "/api/settings">>, <<"POST", "/api/settings">>,
     <<"POST", "/api/auth/revoke">>, <<"GET", "/api/tools">>, <<"GET", "/oauth/start">>,
     <<"GET", "/oauth/callback">>, <<"GET", "/nowhere">>}

InitFetch ==
    /\ ParkedEarlier
    /\ ParkedLast
    /\ ParkedLimiter
    /\ ParkedSettings
    /\ \E r \in FetchRoutes, admin \in BOOLEAN, cacheFresh \in BOOLEAN,
          readFails \in BOOLEAN, kvFails \in BOOLEAN :
           f_args = [kind |-> "fetch", method |-> r[1], path |-> r[2], admin |-> admin,
                     cacheFresh |-> cacheFresh, readFails |-> readFails,
                     kvFails |-> kvFails]
    /\ f_result = [kind |-> "none"]

\* one request handled to its end
Fetch ==
    /\ f_result.kind = "none"
    /\ f_result' = [kind |-> "done",
                    out |-> fetch(f_args.method, f_args.path, f_args.admin,
                                  f_args.cacheFresh, f_args.readFails, f_args.kvFails)]
    /\ UNCHANGED <<f_args, rl, sc>>
    /\ UNCHANGED <<earlierVars, lastVars>>

NextFetch == Fetch

SpecFetch == InitFetch /\ [][NextFetch]_vars

---------------------------------------------------------------------------
(* SpecExchange: exchangeCodeForToken (oauth.ts:58-118) applied to the      *)
(* answers of the token endpoint and of the long-lived upgrade              *)

ExpiresInChoices == {NoNumber, 1, 3600}

\* the token endpoint's answers to the code exchange
CodeAnswers ==
    {TokenResponse(status, hasToken, expiresIn) :
        status \in {200, 400}, hasToken \in BOOLEAN, expiresIn \in ExpiresInChoices}
    \cup {TransportOutcome}

\* the token endpoint's answers to the upgrade; its token type is told
\* apart from the short-lived one
UpgradeAnswers ==
    {[TokenResponse(status, hasToken, expiresIn) EXCEPT !.token_type = "long-bearer"] :
        status \in {200, 500}, hasToken \in BOOLEAN, expiresIn \in {NoNumber, 5184000}}
    \cup {TransportOutcome}

ExchangeArgs ==
    {[kind |-> "args", u |-> u, tokResp |-> tokResp, hasSecret |-> hasSecret,
      longResp |-> longResp, t |-> t] :
        u \in Users, tokResp \in CodeAnswers, hasSecret \in BOOLEAN,
        longResp \in UpgradeAnswers, t \in {0, 1500}}

InitExchange ==
    /\ ParkedClassify
    /\ ParkedGraph
    /\ ParkedSys
    /\ ParkedEnsure /\ ParkedCallback /\ ParkedSession /\ ParkedSse /\ ParkedLater
    /\ x_args \in ExchangeArgs
    /\ x_result = [kind |-> "none"]

\* one call of exchangeCodeForToken
Exchange ==
    /\ x_result.kind = "none"
    /\ x_result' = exchangeCodeForToken(x_args.u, x_args.tokResp, x_args.hasSecret,
                                        x_args.longResp, x_args.t)
    /\ UNCHANGED x_args
    /\ UNCHANGED classifyVars
    /\ UNCHANGED graphVars
    /\ UNCHANGED sysVars
    /\ UNCHANGED <<ensureVars, callbackVars, sessionVars, sseVars, laterVars>>

NextExchange == Exchange

SpecExchange == InitExchange /\ [][NextExchange]_vars

---------------------------------------------------------------------------
(* SpecEnsure: ensurePageAccessToken (helpers.ts:22-46) applied to a store  *)
(* entry for the requested page, a user token, a time and an upstream       *)

\* Date.now() values, ms
EnsureTimes == {0, 500, 1000, 1500}

\* expiresAt of a cached page record, s: none, or around the 60 s margin
EnsureExpiries == {NoNumber, 60, 61, 62}

\* the store's entry for the requested page: none, or a record cached for
\* either identity
EnsureCached(pageId) ==
    {NoEntry} \cup
    {KvPut(PageTokenRecord(pageId, PageTok(u, pageId), x), NoNumber, NoNumber, 0) :
        u \in Users, x \in EnsureExpiries}

EnsureArgs ==
    {[kind |-> "args",
      pageTokens |-> [p \in Pages |-> IF p = pageId THEN cached ELSE NoEntry],
      userToken |-> UserTokenRecord(UserTok(u, "short"), "bearer", NoNumber, u),
      pageId |-> pageId, script |-> script, t |-> t] :
        pageId \in {"p1"}, cached \in EnsureCached("p1"), u \in Users,
        script \in SysScripts, t \in EnsureTimes}

InitEnsure ==
    /\ ParkedClassify
    /\ ParkedGraph
    /\ ParkedSys
    /\ ParkedExchange /\ ParkedCallback /\ ParkedSession /\ ParkedSse /\ ParkedLater
    /\ e_args \in EnsureArgs
    /\ e_result = [kind |-> "none"]

\* one call of ensurePageAccessToken
Ensure ==
    /\ e_result.kind = "none"
    /\ e_result' = [kind |-> "done",
                    ran |-> ensurePageAccessToken(e_args.pageTokens, e_args.userToken,
                                                  e_args.pageId, e_args.script,
                                                  e_args.t)]
    /\ UNCHANGED e_args
    /\ UNCHANGED classifyVars
    /\ UNCHANGED graphVars
    /\ UNCHANGED sysVars
    /\ UNCHANGED <<exchangeVars, callbackVars, sessionVars, sseVars, laterVars>>

\* the next call, by either identity at a later or equal time, finds the
\* store as the call before left it
EnsureAgain(u, t, script) ==
    /\ e_result.kind = "done"
    /\ t >= e_args.t
    /\ e_args' = [e_args EXCEPT !.pageTokens = e_result.ran.pageTokens,
                                !.userToken = UserTokenRecord(UserTok(u, "short"),
                                                              "bearer", NoNumber, u),
                                !.t = t, !.script = script]
    /\ e_result' = [kind |-> "none"]
    /\ UNCHANGED classifyVars
    /\ UNCHANGED graphVars
    /\ UNCHANGED sysVars
    /\ UNCHANGED <<exchangeVars, callbackVars, sessionVars, sseVars, laterVars>>

NextEnsure ==
    \/ Ensure
    \/ \E u \in Users, t \in EnsureTimes, script \in SysScripts : EnsureAgain(u, t, script)

SpecEnsure == InitEnsure /\ [][NextEnsure]_vars

---------------------------------------------------------------------------
(* SpecCallback: /oauth/callback requests that present the same state, in   *)
(* flight together; consumeOAuthState (storage.ts:73-80) awaits the store   *)
(* twice, and other requests run between its awaits                         *)

NCallbacks == 3

CbIds == 1..NCallbacks

\* the record /oauth/start stored under oauth:s1
PendingAuthState == [codeVerifier |-> "v1", redirectUri |-> RedirectUri]

InitCallback ==
    /\ ParkedClassify
    /\ ParkedGraph
    /\ ParkedExchange /\ ParkedEnsure /\ ParkedSession /\ ParkedSse /\ ParkedLater
    /\ now = 0
    /\ envHasSecret = FALSE
    /\ kvActiveUser = NoUser
    /\ kvUserToken = [u \in Users |-> NoEntry]
    /\ kvPageToken = [p \in Pages |-> NoEntry]
    /\ kvOAuth = [st \in OAuthStates |-> KvPut(PendingAuthState, NoNumber, 600, 0)]
    /\ resp = [kind |-> "none"]
    /\ obs = [kind |-> "none"]
    /\ cb_pc = [r \in CbIds |-> "idle"]
    /\ cb_stored = [r \in CbIds |-> NoEntry]

\* part_004:298-314: the request arrives; an error parameter or a missing
\* code is answered 400 before the store is read
CbArrive(r, errorParam, hasCode) ==
    /\ cb_pc[r] = "idle"
    /\ cb_pc' = [cb_pc EXCEPT ![r] = IF errorParam \/ ~hasCode THEN "answered400"
                                     ELSE "get"]
    /\ UNCHANGED <<cb_stored, now, envHasSecret, kvActiveUser, kvUserToken, kvPageToken,
                   kvOAuth, resp, obs>>
    /\ UNCHANGED classifyVars
    /\ UNCHANGED graphVars
    /\ UNCHANGED <<exchangeVars, ensureVars, sessionVars, sseVars, laterVars>>

\* storage.ts:75: env.TOKENS_KV.get resolves; a missing record is answered
\* 400 (part_004:316-321)
CbGet(r, st) ==
    /\ cb_pc[r] = "get"
    /\ cb_stored' = [cb_stored EXCEPT ![r] = kvOAuth[st]]
    /\ cb_pc' = [cb_pc EXCEPT ![r] = IF kvOAuth[st].present THEN "delete"
                                     ELSE "answered400"]
    /\ UNCHANGED <<now, envHasSecret, kvActiveUser, kvUserToken, kvPageToken,
                   kvOAuth, resp, obs>>
    /\ UNCHANGED classifyVars
    /\ UNCHANGED graphVars
    /\ UNCHANGED <<exchangeVars, ensureVars, sessionVars, sseVars, laterVars>>

\* storage.ts:76-79: env.TOKENS_KV.delete resolves and the record is returned
CbDelete(r, st) ==
    /\ cb_pc[r] = "delete"
    /\ kvOAuth' = [kvOAuth EXCEPT ![st] = NoEntry]
    /\ cb_pc' = [cb_pc EXCEPT ![r] = "exchange"]
    /\ UNCHANGED <<cb_stored, now, envHasSecret, kvActiveUser, kvUserToken, kvPageToken,
                   resp, obs>>
    /\ UNCHANGED classifyVars
    /\ UNCHANGED graphVars
    /\ UNCHANGED <<exchangeVars, ensureVars, sessionVars, sseVars, laterVars>>

\* part_004:322-334: the token exchange with the stored verifier, the
\* profile fetch and the two writes, taken as one step
CbExchange(r, u, tokResp, script) ==
    /\ cb_pc[r] = "exchange"
    /\ LET token == exchangeCodeForToken(u, tokResp, envHasSecret, UpgradeRefused, now)
           me == IF token.kind = "throw" THEN NotCalled
                 ELSE callGraph("/me", script, MeDocument(token.value.accessToken))
       IN  IF token.kind = "throw" \/ me.kind = "throw"
           THEN /\ cb_pc' = [cb_pc EXCEPT ![r] = "answered500"]
                /\ UNCHANGED <<kvActiveUser, kvUserToken>>
           ELSE LET record == UserTokenRecord(token.value.accessToken,
                                              token.value.tokenType,
                                              token.value.expiresAt, me.value.data.id)
                IN  /\ kvUserToken' = saveUserToken(kvUserToken, record.userId,
                                                    record, now)
                    /\ kvActiveUser' = record.userId
                    /\ cb_pc' = [cb_pc EXCEPT ![r] = "answered200"]
    /\ UNCHANGED <<cb_stored, now, envHasSecret, kvPageToken, kvOAuth, resp, obs>>
    /\ UNCHANGED classifyVars
    /\ UNCHANGED graphVars
    /\ UNCHANGED <<exchangeVars, ensureVars, sessionVars, sseVars, laterVars>>

NextCallback ==
    \/ \E r \in CbIds, errorParam \in BOOLEAN, hasCode \in BOOLEAN :
           CbArrive(r, errorParam, hasCode)
    \/ \E r \in CbIds, st \in OAuthStates : CbGet(r, st)
    \/ \E r \in CbIds, st \in OAuthStates : CbDelete(r, st)
    \/ \E r \in CbIds, u \in Users, tokStatus \in {200, 400},
          script \in {NoScript, Exhausted} :
           CbExchange(r, u, TokenResponse(tokStatus, TRUE, NoNumber), script)

SpecCallback == InitCallback /\ [][NextCallback]_vars

---------------------------------------------------------------------------
(* Properties of extractGraphError and callGraph *)

\* the application error codes the classification treats as transient
TransientCodes == {1, 2, 4}

\* a failed attempt that the retry policy calls retryable: a timeout, or a
\* non-2xx response with the transience flag, a status >= 500 or a transient code
RetryableFailure(o) ==
    \/ o.kind = "timeout"
    \/ /\ o.kind = "http"
       /\ ~ResponseOk(o.status)
       /\ \/ o.status >= 500
          \/ (o.body.error.present /\ o.body.error.is_transient)
          \/ (o.body.error.present /\ o.body.error.code \in TransientCodes)

\* a failed attempt that is not retryable: any other non-2xx response, or a
\* transport or parse error
TerminalFailure(o) ==
    \/ o.kind = "transport"
    \/ (o.kind = "http" /\ ~ResponseOk(o.status) /\ ~RetryableFailure(o))

Success(o) == o.kind = "http" /\ ResponseOk(o.status)

Finished == g_pc \in {"returned", "thrown"}

\* C2: one callGraph invocation performs at most 3 fetch attempts, whatever
\* the upstream outcomes are.
C2_AtMostThreeAttempts ==
    /\ fetches <= 3
    /\ Len(outcomes) <= fetches
    /\ attempt <= 3

C2_Witness == g_pc = "thrown" /\ fetches = 3 /\ outcomes[3].kind = "timeout"

\* C3: an attempt that fails with a terminal classification is the last one:
\* no backoff delay and no further fetch follows it, and its error is what
\* the call throws; a terminal failure on the first attempt gives exactly
\* one attempt.
C3_TerminalFailureEndsCall ==
    \A i \in 1..Len(outcomes) :
        TerminalFailure(outcomes[i]) =>
            /\ i = Len(outcomes)
            /\ g_pc = "thrown"
            /\ fetches = i
            /\ Len(delays) = i - 1
            /\ g_result.kind = "throw"
            /\ outcomes[i].kind = "http" =>
                   /\ g_result.value.kind = "GraphApiError"
                   /\ g_result.value.status = outcomes[i].status
                   /\ g_result.value.body = outcomes[i].body

C3_Witness ==
    /\ g_pc = "thrown"
    /\ Len(outcomes) = 1
    /\ outcomes[1].kind = "http"
    /\ TerminalFailure(outcomes[1])
    /\ fetches = 1
    /\ delays = <<>>

\* C4: a retryable failure on attempt k < 3 is followed by attempt k+1; an
\* attempt is in flight only while its own timer is the only one pending,
\* and a new attempt starts only when no timer is pending; the call returns
\* exactly when an attempt is 2xx, and returns the body of that first 2xx
\* attempt.
C4_RetrySequentialFirstSuccess ==
    /\ timers \subseteq {attempt}
    /\ g_pc = "start" => timers = {}
    /\ g_pc = "fetching" => (timers = {attempt} /\ fetches = Len(outcomes) + 1)
    /\ g_pc # "fetching" => fetches = Len(outcomes)
    /\ Finished => timers = {}
    /\ \A k \in 1..Len(outcomes) :
          (k < 3 /\ RetryableFailure(outcomes[k])) =>
              /\ Len(delays) >= k
              /\ Finished => Len(outcomes) >= k + 1
    /\ g_pc = "returned" <=>
          (Len(outcomes) > 0 /\ Success(outcomes[Len(outcomes)]))
    /\ g_pc = "returned" =>
          /\ g_result = [kind |-> "return", value |-> outcomes[Len(outcomes)].body]
          /\ \A j \in 1..(Len(outcomes) - 1) : ~Success(outcomes[j])

C4_Witness ==
    /\ g_pc = "returned"
    /\ Len(outcomes) = 3
    /\ outcomes[1].kind = "http" /\ outcomes[1].status = 500
    /\ outcomes[2].kind = "timeout"
    /\ outcomes[3].status = 200

\* C5 as stated: no delay before the first attempt, 200ms before the second
\* attempt and 400ms before the third.
C5_Original_Delays200Then400 ==
    /\ g_pc = "fetching" => Len(delays) = attempt - 1
    /\ \A i \in 1..Len(delays) : delays[i] = 200 * 2 ^ (i - 1)

\* C5 amended: no delay before the first attempt, 400ms before the second
\* attempt and 800ms before the third (200ms * 2^k after attempt k).
C5_Delays400Then800 ==
    /\ g_pc = "fetching" => Len(delays) = attempt - 1
    /\ g_pc = "start" => Len(delays) = attempt - 1
    /\ Len(delays) <= 2
    /\ Len(delays) >= 1 => delays[1] = 400
    /\ Len(delays) >= 2 => delays[2] = 800

C5_Witness == g_pc = "fetching" /\ attempt = 3 /\ delays = <<400, 800>>

\* C6: extractGraphError marks a non-2xx response retryable if and only if
\* its body carries is_transient, or its status is >= 500, or its error
\* code is 1, 2 or 4; every other response is terminal.
C6_RetryableIff ==
    c_result # NotClassified =>
        /\ c_result.kind = "GraphApiError"
        /\ c_result.status = c_status
        /\ c_result.retryable <=>
              \/ (c_body.error.present /\ c_body.error.is_transient)
              \/ c_status >= 500
              \/ (c_body.error.present /\ c_body.error.code \in TransientCodes)

C6_Witness ==
    /\ c_result # NotClassified
    /\ c_result.retryable
    /\ c_status = 400
    /\ c_body.error.present
    /\ ~c_body.error.is_transient
    /\ c_body.error.code = 4

\* C7: when all 3 attempts failed retryably (HTTP failures or timeouts) the
\* call throws the error of the last attempt, and that error is tagged
\* retryable.
C7_ExhaustedErrorIsRetryable ==
    (/\ g_pc = "thrown"
     /\ Len(outcomes) = 3
     /\ \A i \in 1..3 : RetryableFailure(outcomes[i]))
    => /\ g_result.kind = "throw"
       /\ g_result.value.kind = "GraphApiError"
       /\ g_result.value = lastError
       /\ outcomes[3].kind = "http" => g_result.value.status = outcomes[3].status
       /\ outcomes[3].kind = "timeout" => g_result.value.status = 504
       /\ g_result.value.retryable = TRUE

---------------------------------------------------------------------------
(* Properties of the dispatcher and the credential helpers *)

\* the envelope is well formed: status ok with a result and no error, or
\* status error with an error carrying code and message and no result
WellFormed(e) ==
    \/ /\ e.status = "ok"
       /\ "result" \in DOMAIN e
       /\ "error" \notin DOMAIN e
    \/ /\ e.status = "error"
       /\ "error" \in DOMAIN e
       /\ "result" \notin DOMAIN e
       /\ {"code", "message"} \subseteq DOMAIN e.error

\* C1: dispatchTool never throws: whatever the request and whatever the
\* handler did (returned, threw a ToolError, threw anything else, or the
\* tool is unknown) it returns an envelope with the request's id that is
\* either ok with a result and no error, or error with {code, message} and
\* no result.
C1_DispatchReturnsWellFormedEnvelope ==
    obs.kind = "dispatch" =>
        /\ resp.kind = "return"
        /\ resp.value.id = obs.request.id
        /\ WellFormed(resp.value)
        /\ obs.request.tool \notin Registry =>
               (resp.value.status = "error" /\ resp.value.error.code = "not_found")
        /\ obs.ran.kind = "return" =>
               (resp.value.status = "ok" /\ resp.value.result = obs.ran.value)
        /\ obs.ran.kind = "throw" =>
               /\ resp.value.status = "error"
               /\ obs.ran.value.kind = "ToolError" =>
                      resp.value.error.code = obs.ran.value.code
               /\ obs.ran.value.kind # "ToolError" =>
                      resp.value.error.code = "internal_error"

C1_Witness ==
    /\ obs.kind = "dispatch"
    /\ obs.request.id = "r2"
    /\ obs.ran.kind = "throw"
    /\ obs.ran.value.kind # "ToolError"
    /\ resp.kind = "return"
    /\ resp.value.status = "error"

\* an upstream call of the handler that gave up: a GraphApiError thrown
\* after the third attempt, or built for a timed-out attempt
GaveUp(call) ==
    /\ call.kind = "throw"
    /\ call.value.kind = "GraphApiError"
    /\ call.attempts = MAX_RETRIES \/ call.value.status = 504

\* C8: when the handler fails because its upstream call exhausted its
\* retries or timed out, the error envelope carries a code other than
\* internal_error.
C8_UpstreamFailureIsNotInternal ==
    (/\ obs.kind = "dispatch"
     /\ obs.ran.kind = "throw"
     /\ \E i \in DOMAIN obs.calls :
           GaveUp(obs.calls[i]) /\ obs.ran.value = obs.calls[i].value)
    => /\ resp.kind = "return"
       /\ resp.value.status = "error"
       /\ resp.value.error.code # "internal_error"

\* the token record the store holds for the active identity is past its
\* expiresAt
PastExpiry(record, t) == Truthy(record.expiresAt) /\ record.expiresAt * 1000 < t

\* C9: requireActiveUserToken returns a credential only when an active
\* owner is linked, its record exists and its expiresAt is absent or not in
\* the past, and then returns that record; it fails auth_required when no
\* owner or no record is linked and auth_expired when expiresAt is in the
\* past; it never returns an expired credential.
C9_RequireActiveUserToken ==
    (obs.kind = "dispatch" /\ obs.require.kind # "not_called") =>
        LET linked == kvActiveUser # NoUser /\ kvUserToken[kvActiveUser].present
        IN  /\ obs.require.kind = "return" =>
                   /\ linked
                   /\ obs.require.value = kvUserToken[kvActiveUser].value
                   /\ ~PastExpiry(obs.require.value, now)
            /\ ~linked =>
                   /\ obs.require.kind = "throw"
                   /\ obs.require.value.code = "auth_required"
            /\ (linked /\ PastExpiry(kvUserToken[kvActiveUser].value, now)) =>
                   /\ obs.require.kind = "throw"
                   /\ obs.require.value.code = "auth_expired"
            /\ obs.require.kind \in {"return", "throw"}

C9_Witness ==
    /\ obs.kind = "dispatch"
    /\ obs.require.kind = "throw"
    /\ obs.require.value.code = "auth_expired"
    /\ kvUserToken[kvActiveUser].value.expiresAt = 1
    /\ now > 1000

\* C10: ensurePageAccessToken returns a page credential only for a page the
\* active identity manages, and that credential is the active identity's;
\* for any other page it fails not_found unless the list fetch itself failed.
C10_PageTokenOnlyForManagedPage ==
    (obs.kind = "dispatch" /\ obs.ensure.kind # "not_called") =>
        LET pageId == obs.request.params.f.page_id.s
        IN  /\ obs.ensure.kind = "return" =>
                   /\ pageId \in ManagedPages(kvActiveUser)
                   /\ obs.ensure.value.pageId = pageId
                   /\ obs.ensure.value.accessToken = PageTok(kvActiveUser, pageId)
            /\ (pageId \notin ManagedPages(kvActiveUser) /\ obs.ensure.kind = "throw") =>
                   \/ obs.ensure.value.kind = "ToolError"
                      /\ obs.ensure.value.code = "not_found"
                   \/ obs.ensure.value.kind # "ToolError"

---------------------------------------------------------------------------
(* Properties of the OAuth callback and the token exchange *)

\* the requests that went on to the token exchange
Exchanging == {r \in CbIds : cb_pc[r] \in {"exchange", "answered200", "answered500"}}

\* C11: whatever the interleaving of the callbacks that present one state,
\* consumeOAuthState hands the stored record to at most one of them; every
\* other one observes absence and performs no token exchange.
C11_ConsumedAtMostOnce ==
    /\ Cardinality({r \in CbIds : cb_stored[r].present}) <= 1
    /\ Cardinality(Exchanging) <= 1

---------------------------------------------------------------------------
(* Properties of ensurePageAccessToken as a function of the store *)

\* the cached record may be used: it has no expiry, or now < expiresAt - 60s
Fresh(cached, t) ==
    /\ cached.present
    /\ \/ cached.value.expiresAt = NoNumber
       \/ t < cached.value.expiresAt * 1000 - 60 * 1000

\* the call served the cached record and made no upstream call
ServedFromCache(args, ran) ==
    /\ ran.result = Return(args.pageTokens[args.pageId].value)
    /\ ran.calls = <<>>
    /\ ran.pageTokens = args.pageTokens

\* the call stored and returned the page's credential from the list
Refreshed(args, ran) ==
    /\ ran.result.kind = "return"
    /\ ran.result.value.pageId = args.pageId
    /\ ran.result.value.accessToken = PageTok(args.userToken.userId, args.pageId)
    /\ ran.pageTokens[args.pageId].present
    /\ ran.pageTokens[args.pageId].value = ran.result.value

FailedNotFound(args, ran) ==
    /\ ran.result.kind = "throw"
    /\ ran.result.value.kind = "ToolError"
    /\ ran.result.value.code = "not_found"
    /\ ran.pageTokens = args.pageTokens

\* exactly one managed-pages list call was made
OneListFetch(ran) == Len(ran.calls) = 1 /\ ran.calls[1].path = "/me/accounts"

\* C12 as stated: a fresh cached record is returned without an upstream
\* call; otherwise exactly one list fetch is made and the call either stores
\* and returns a refreshed credential or fails not_found.
C12_Original_RefreshedOrNotFound ==
    e_result.kind = "done" =>
        LET cached == e_args.pageTokens[e_args.pageId]
        IN  /\ Fresh(cached, e_args.t) => ServedFromCache(e_args, e_result.ran)
            /\ ~Fresh(cached, e_args.t) =>
                   /\ OneListFetch(e_result.ran)
                   /\ Refreshed(e_args, e_result.ran) \/ FailedNotFound(e_args, e_result.ran)

\* C12 amended: as stated when the list fetch succeeds (refreshed if the
\* page is in the list, not_found if not); when the list fetch itself fails,
\* its error is thrown and nothing is stored.
C12_CachedOrOneListFetch ==
    e_result.kind = "done" =>
        LET cached == e_args.pageTokens[e_args.pageId]
            ran == e_result.ran
        IN  /\ Fresh(cached, e_args.t) => ServedFromCache(e_args, ran)
            /\ ~Fresh(cached, e_args.t) =>
                   /\ OneListFetch(ran)
                   /\ ran.calls[1].kind = "throw" =>
                          /\ ran.result = Throw(ran.calls[1].value)
                          /\ ran.pageTokens = e_args.pageTokens
                   /\ ran.calls[1].kind = "return" =>
                          IF e_args.pageId \in ManagedPages(e_args.userToken.userId)
                          THEN Refreshed(e_args, ran)
                          ELSE FailedNotFound(e_args, ran)

C12_Witness ==
    /\ e_result.kind = "done"
    /\ e_args.pageTokens[e_args.pageId].present
    /\ e_args.pageTokens[e_args.pageId].value.expiresAt = 61
    /\ e_args.t = 1000
    /\ Refreshed(e_args, e_result.ran)
    /\ OneListFetch(e_result.ran)

---------------------------------------------------------------------------
(* Properties of exchangeCodeForToken *)

\* the code exchange was answered 2xx with an access_token
CodeAccepted(a) ==
    a.tokResp.kind = "http" /\ ResponseOk(a.tokResp.status) /\ a.tokResp.hasToken

\* the upgrade call fails: a thrown exception, a non-2xx answer, or an
\* answer without a token
UpgradeFails(a) ==
    \/ a.longResp.kind # "http"
    \/ ~ResponseOk(a.longResp.status)
    \/ ~a.longResp.hasToken

\* the short-lived token of the code exchange: its own type, and
\* now + expires_in when expires_in is given
ShortLived(a) ==
    [accessToken |-> UserTok(a.u, "short"),
     tokenType |-> a.tokResp.token_type,
     expiresAt |-> IF a.tokResp.expires_in \in {NoNumber, 0} THEN NoNumber
                   ELSE (a.t \div 1000) + a.tokResp.expires_in]

\* C13: when the code exchange succeeds and the opportunistic upgrade is
\* made and fails in any way, exchangeCodeForToken still returns the
\* short-lived token with its own token type and expiry now + expires_in.
C13_UpgradeFailureSwallowed ==
    (/\ x_result.kind # "none"
     /\ CodeAccepted(x_args)
     /\ x_args.hasSecret
     /\ UpgradeFails(x_args))
    => /\ x_result.kind = "return"
       /\ x_result.value = ShortLived(x_args)
       /\ x_result.upgrade = "failed"

C13_Witness ==
    /\ x_result.kind = "return"
    /\ x_result.upgrade = "failed"
    /\ x_args.tokResp.expires_in = 3600
    /\ x_args.t = 1500
    /\ x_result.value.expiresAt = 3601
    /\ x_args.longResp.kind = "http"
    /\ x_args.longResp.status = 200

\* C14: a rejected code (non-2xx) and a 2xx answer without access_token
\* make exchangeCodeForToken throw, with different errors; neither returns a
\* credential nor attempts the upgrade.
C14_RejectedOrMalformed ==
    x_result.kind # "none" =>
        /\ (x_args.tokResp.kind = "http" /\ ~ResponseOk(x_args.tokResp.status)) =>
               /\ x_result.kind = "throw"
               /\ x_result.value.message = "Token exchange failed (<status>)"
               /\ x_result.upgrade = "not_attempted"
        /\ (/\ x_args.tokResp.kind = "http"
            /\ ResponseOk(x_args.tokResp.status)
            /\ ~x_args.tokResp.hasToken) =>
               /\ x_result.kind = "throw"
               /\ x_result.value.message = "Token exchange response missing access_token"
               /\ x_result.upgrade = "not_attempted"
        /\ x_result.kind = "return" => CodeAccepted(x_args)

C14_Witness ==
    /\ x_result.kind = "throw"
    /\ x_args.tokResp.kind = "http"
    /\ x_args.tokResp.status = 200
    /\ ~x_args.tokResp.hasToken
    /\ x_args.hasSecret
    /\ x_args.longResp.kind = "http"
    /\ x_args.longResp.status = 200
    /\ x_args.longResp.hasToken

---------------------------------------------------------------------------
(* Properties of an SSE session *)

\* C15: whatever close() calls and peer cancellations are made on a session,
\* the registered cleanup and the release (the caller's onClose) have each
\* run exactly once as soon as the session is closed, and never before;
\* calls after the first change nothing.
C15_CleanupExactlyOnce ==
    /\ session.closed =>
           /\ session.onCloseRuns = 1
           /\ session.cleanupRuns = IF session.cleanup THEN 1 ELSE 0
    /\ ~session.closed => (session.onCloseRuns = 0 /\ session.cleanupRuns = 0)

C15_Witness ==
    /\ s_call.kind \in {"close", "cancel"}
    /\ s_call.wasClosed
    /\ session.cleanup
    /\ session.cleanupRuns = 1
    /\ session.ended

\* C18: once the session is closed, no step (send, comment, or anything
\* else) adds a frame to the channel.
C18_NoFrameAfterClosed ==
    [][session.closed => session'.frames = session.frames]_vars

C18_Witness ==
    /\ s_call.kind = "send"
    /\ s_call.wasClosed
    /\ ~sendThrows(s_call.args[2])
    /\ Len(session.frames) = 1

\* the lines of a frame: the pieces that a line feed terminates
RECURSIVE FrameLines(_, _)
FrameLines(frame, current) ==
    IF frame = <<>> THEN <<>>
    ELSE IF Head(frame) = LF THEN <<current>> \o FrameLines(Tail(frame), <<>>)
    ELSE FrameLines(Tail(frame), Append(current, Head(frame)))

\* the lines the wire format asks for: an event line iff the name is
\* non-empty, one data line per line of the payload text, a blank line
ExpectedLines(event, data) ==
    LET lines == SplitLines(PayloadText(data), <<>>)
    IN  (IF event # <<>> THEN << <<"event: ">> \o event >> ELSE <<>>)
        \o [k \in 1..Len(lines) |-> <<"data: ">> \o lines[k]]
        \o << <<>> >>

\* C19: a send on an open session writes exactly one frame, made of the
\* event line (iff the name is non-empty), one data line per payload line in
\* order, and the terminating blank line, with no other blank line.
C19_SendWritesOneFrame ==
    (s_call.kind = "send" /\ ~s_call.wasClosed) =>
        /\ ~sendThrows(s_call.args[2])
        /\ Len(session.frames) = s_call.before + 1
        /\ LET written == FrameLines(session.frames[Len(session.frames)], <<>>)
           IN  /\ written = ExpectedLines(s_call.args[1], s_call.args[2])
               /\ \A k \in 1..(Len(written) - 1) : written[k] # <<>>

---------------------------------------------------------------------------
(* Properties of the SSE routes *)

\* C16: a GET /mcp/sse from an allowed origin is answered 429 with
\* Retry-After exactly when the active-session count has reached the cap;
\* the refusal creates no stream and leaves the count as it was; the count
\* is the number of open /mcp/sse sessions and never exceeds the cap.
C16_RefusedAtCap ==
    /\ activeMcpStreams = Cardinality(OpenMcp(streams))
    /\ activeMcpStreams <= MAX_SSE_STREAMS
    /\ (sse_obs.kind = "mcp_sse" /\ sse_obs.allowed) =>
           /\ (sse_obs.before >= MAX_SSE_STREAMS) <=> (sse_obs.status = 429)
           /\ sse_obs.status = 429 =>
                  /\ sse_obs.retryAfter = "30"
                  /\ activeMcpStreams = sse_obs.before
                  /\ Len(streams) = sse_obs.lenBefore

C16_Witness ==
    /\ sse_obs.kind = "mcp_sse"
    /\ sse_obs.status = 429
    /\ sse_obs.before = MAX_SSE_STREAMS
    /\ Cardinality(OpenMcp(streams)) = MAX_SSE_STREAMS

\* the event name of a frame
EventOf(frame) == Tail(FrameLines(frame, <<>>)[1])

\* C17: on every /mcp/sse session the first frame is a ready event, every
\* later frame is a ping, there is one ping per firing of the 15-second
\* interval, and the interval fires only while the session is open, at
\* openedAt + 15 s, + 30 s, ...
C17_ReadyThenPings ==
    \A i \in 1..Len(streams) :
        streams[i].endpoint = "mcp" =>
            /\ Len(streams[i].s.frames) = 1 + streams[i].fired
            /\ EventOf(streams[i].s.frames[1]) = <<"ready">>
            /\ \A k \in 2..Len(streams[i].s.frames) :
                   EventOf(streams[i].s.frames[k]) = <<"ping">>
            /\ streams[i].due = streams[i].openedAt + (streams[i].fired + 1) * 15000
            /\ ~streams[i].s.closed => sse_now <= streams[i].due
            /\ streams[i].s.closed => ~Armed(streams[i])

C17_Witness ==
    \E i \in 1..Len(streams) :
        /\ streams[i].endpoint = "mcp"
        /\ ~streams[i].s.closed
        /\ streams[i].fired = MaxPings
        /\ Len(streams[i].s.frames) = 1 + MaxPings
        /\ sse_now = streams[i].openedAt + MaxPings * 15000

\* C20: at no time are more SSE connections open than the cap, over both
\* routes, and a connection attempted with the cap reached is answered 429
\* with Retry-After.
C20_AllStreamsCapped ==
    /\ Cardinality(Open(streams)) <= MAX_SSE_STREAMS
    /\ (sse_obs.kind \in {"mcp_sse", "logs_stream"} /\ sse_obs.allowed
        /\ sse_obs.openBefore >= MAX_SSE_STREAMS) =>
           (sse_obs.status = 429 /\ sse_obs.retryAfter # "none")

---------------------------------------------------------------------------
(* Properties of the dispatcher's error envelopes *)

\* C21: dispatching a tool name that is not registered returns the error
\* envelope {id, status error, error {code not_found, message 'Unknown tool:
\* <name>'}} with the request's id and nothing else in it; no handler ran,
\* no credential helper was called and no upstream call was made.
C21_UnknownToolNotFound ==
    (obs.kind = "dispatch" /\ obs.request.tool \notin Registry) =>
        /\ resp = Return([id |-> obs.request.id, status |-> "error",
                          error |-> [code |-> "not_found",
                                     message |-> <<"Unknown tool: ", obs.request.tool>>]])
        /\ obs.ran = NotCalled
        /\ obs.calls = <<>>
        /\ obs.require = NotCalled
        /\ obs.ensure = NotCalled

C21_Witness ==
    /\ obs.kind = "dispatch"
    /\ obs.request = Request("r1", "unknown.tool", U)
    /\ kvActiveUser # NoUser
    /\ resp.kind = "return"
    /\ resp.value.error.code = "not_found"

\* C22: when the handler throws a ToolError, the envelope dispatchTool
\* returns is {id, status error, error {code, message, details}} with the
\* three values of the thrown error, unmodified.
C22_ToolErrorVerbatim ==
    (/\ f_args.kind = "dispatchTool"
     /\ f_result.kind = "done"
     /\ f_args.ran.kind = "throw"
     /\ f_args.ran.value.kind = "ToolError")
    => f_result.first =
           Return([id |-> f_args.request.id, status |-> "error",
                   error |-> [code |-> f_args.ran.value.code,
                              message |-> f_args.ran.value.message,
                              details |-> f_args.ran.value.details]])

C22_Witness ==
    /\ f_args.kind = "dispatchTool"
    /\ f_result.kind = "done"
    /\ f_args.ran = Throw(ToolError("invalid_params", "m1", "details-2"))
    /\ f_result.first.value.error.details = "details-2"

\* a handler outcome that is a throw of something other than a ToolError
Unrecognized(ran) == ran.kind = "throw" /\ ran.value.kind # "ToolError"

\* C23: when the handler throws anything that is not a ToolError, the
\* envelope is {id, status error, error {code internal_error, message
\* 'Unexpected error executing tool.'}} with no details; two dispatches of
\* the same request that differ only in what was thrown return identical
\* envelopes.
C23_UnknownErrorsCollapse ==
    (f_args.kind = "dispatchTool" /\ f_result.kind = "done") =>
        /\ Unrecognized(f_args.ran) =>
               f_result.first =
                   Return([id |-> f_args.request.id, status |-> "error",
                           error |-> [code |-> "internal_error",
                                      message |-> "Unexpected error executing tool."]])
        /\ (Unrecognized(f_args.ran) /\ Unrecognized(f_args.other)) =>
               f_result.first = f_result.second

C23_Witness ==
    /\ f_args.kind = "dispatchTool"
    /\ f_result.kind = "done"
    /\ f_args.ran = Throw(PlainError("secret EAAB leaked"))
    /\ f_args.other = Throw([kind |-> "object", code |-> "auth_required", message |-> "m1"])
    /\ f_result.first = f_result.second

\* a JSON document that is an object carrying a non-empty string id and a
\* non-empty string tool
ValidEnvelope(body) ==
    /\ body.t = "object"
    /\ body.f.id.t = "string" /\ body.f.id.s # ""
    /\ body.f.tool.t = "string" /\ body.f.tool.s # ""

\* C24: parseRequestEnvelope throws invalid_request for every body that is
\* not an object with a non-empty string id and a non-empty string tool,
\* and POST /mcp then answers 400 without dispatching; for every other body
\* it returns {id, tool, params} with params as posted, and the request is
\* dispatched.
C24_EnvelopeParsedOrRejected ==
    (f_args.kind = "post_mcp" /\ f_result.kind = "done" /\ f_args.gate = "ok") =>
        IF ValidEnvelope(f_args.body)
        THEN /\ f_result.parsed =
                    Return([id |-> f_args.body.f.id.s, tool |-> f_args.body.f.tool.s,
                            params |-> f_args.body.f.params])
             /\ f_result.dispatched
             /\ f_result.status = 200
        ELSE /\ f_result.parsed.kind = "throw"
             /\ f_result.parsed.value.kind = "ToolError"
             /\ f_result.parsed.value.code = "invalid_request"
             /\ ~f_result.dispatched
             /\ f_result.status = 400

C24_Witness ==
    /\ f_args.kind = "post_mcp"
    /\ f_result.kind = "done"
    /\ f_args.gate = "ok"
    /\ f_args.body = Obj([id |-> Str("r1"), tool |-> Str(""), params |-> Num])
    /\ f_result.status = 400
    /\ ~f_result.dispatched

\* C25: every tool name the server advertises is registered, so the
\* dispatch of an advertised name is never answered not_found.
C25_AdvertisedToolsRegistered ==
    (obs.kind = "dispatch" /\ obs.request.tool \in apiTools) =>
        /\ obs.request.tool \in Registry
        /\ ~(resp.value.status = "error" /\ resp.value.error.code = "not_found"
             /\ obs.ran = NotCalled)

---------------------------------------------------------------------------
(* Properties of the logger *)

\* the keys of the logged details whose name contains token or secret
CredentialKeys == {Key_accessToken, Key_APP_SECRET, Key_page_token}

\* every credential key of a value, at every depth, holds '[redacted]'
RECURSIVE AllRedacted(_)
AllRedacted(value) ==
    IF value.t = "object"
    THEN \A key \in DOMAIN value.f :
             IF key \in CredentialKeys THEN value.f[key] = Str("[redacted]")
             ELSE AllRedacted(value.f[key])
    ELSE IF value.t = "array"
    THEN \A k \in DOMAIN value.items : AllRedacted(value.items[k])
    ELSE TRUE

\* two values differ at most in what they hold under credential keys
RECURSIVE SameOutsideCredentials(_, _)
SameOutsideCredentials(v, w) ==
    IF v.t = "object" /\ w.t = "object"
    THEN /\ DOMAIN v.f = DOMAIN w.f
         /\ \A key \in DOMAIN v.f :
                key \in CredentialKeys \/ SameOutsideCredentials(v.f[key], w.f[key])
    ELSE IF v.t = "array" /\ w.t = "array"
    THEN /\ DOMAIN v.items = DOMAIN w.items
         /\ \A k \in DOMAIN v.items :
                SameOutsideCredentials(v.items[k], w.items[k])
    ELSE v = w

\* C26: the log entry that is buffered and the one delivered to the
\* subscribers hold '[redacted]' under every key naming a token or secret,
\* at every depth of the details; two runs whose details differ only under
\* such keys buffer and deliver identical entries.
C26_CredentialsRedacted ==
    (f_args.kind = "log" /\ f_result.kind = "done") =>
        /\ AllRedacted(f_result.first.buffered.details)
        /\ AllRedacted(f_result.first.delivered.details)
        /\ SameOutsideCredentials(f_args.details, f_args.other) =>
               f_result.first = f_result.second

C26_Witness ==
    /\ f_args.kind = "log"
    /\ f_result.kind = "done"
    /\ f_args.details = Details(Str("v1"), Str("EAAB-1"), Str("s3cr3t-1"), Str("EAAP-1"))
    /\ f_args.other = Details(Str("v1"), Obj(Key_user :> Str("EAAB-3")), Str("s3cr3t-2"), Num)
    /\ f_result.first = f_result.second
    /\ f_result.first.buffered.details.f[Key_user] = Str("v1")

---------------------------------------------------------------------------
(* Properties of the rate limiter *)

\* C27: for a positive limit L no 60-second interval holds more than L
\* admitted calls; a refused call leaves the count as it was and reports a
\* retryAfterSec between 1 and 60.
C27_AtMostLimitPerWindow ==
    rl.limit > 0 =>
        /\ \A i \in 1..Len(rl.admitted) :
               Cardinality({j \in i..Len(rl.admitted) :
                               rl.admitted[j] - rl.admitted[i] < windowMs}) <= rl.limit
        /\ (rl.last.kind = "check" /\ ~rl.last.allowed) =>
               /\ Len(rl.admitted) >= rl.limit
               /\ rl.last.retryAfterSec >= 1
               /\ rl.last.retryAfterSec <= 60

---------------------------------------------------------------------------
(* Properties of the settings cache *)

\* C28: every request that starts after the POST /api/settings has
\* completed is evaluated with the settings that POST stored, whatever
\* settings loads were in flight when the POST ran.
C28_NewSettingsAfterPost ==
    \A r \in 1..NRequests :
        (sc.reqs[r].afterPost /\ sc.reqs[r].pc \in {"evaluated", "body"}) =>
            sc.reqs[r].settings = "S1"

---------------------------------------------------------------------------
(* Properties of the admin mode *)

\* the request presents the configured bearer token
PresentsToken(a) ==
    /\ a.header.present
    /\ a.header.prefix = "Bearer "
    /\ a.adminBearer.set
    /\ a.adminBearer.value # <<>>
    /\ trim(a.header.rest) = a.adminBearer.value

\* C29: with REQUIRE_ADMIN = '1', a request to a route under /ui/, under
\* /api/ or to /oauth/start that does not present the configured bearer
\* token is answered 401, is given no content and writes nothing; with
\* ADMIN_BEARER unset no header presents it.
C29_AdminRoutesGuarded ==
    (/\ f_args.kind = "route"
     /\ f_result.kind = "done"
     /\ f_args.requireAdmin = "1"
     /\ ~PresentsToken(f_args))
    => /\ f_result.status = 401
       /\ ~f_result.disclosed
       /\ ~f_result.changed

---------------------------------------------------------------------------
(* Properties of the PKCE helpers *)

UrlSafeAlphabet ==
    {UpperLetters[i] : i \in 1..Len(UpperLetters)} \cup
    {LowerLetters[i] : i \in 1..Len(LowerLetters)} \cup
    {Digits[i] : i \in 1..Len(Digits)} \cup {"-", "_"}

UrlSafe(text) == \A i \in 1..Len(text) : text[i] \in UrlSafeAlphabet

\* C30: the verifier and the challenge are strings over the URL-safe base64
\* alphabet, without '+', '/' or '=' padding, and the challenge derived
\* twice from the same verifier is the same string.
C30_PkceUrlSafeAndDeterministic ==
    (f_args.kind = "pkce" /\ f_result.kind = "done") =>
        /\ f_result.verifier # <<>>
        /\ UrlSafe(f_result.verifier)
        /\ f_result.challenge # <<>>
        /\ UrlSafe(f_result.challenge)
        /\ f_result.again = f_result.challenge

C30_Witness ==
    /\ f_args.kind = "pkce"
    /\ f_result.kind = "done"
    /\ f_args.random = <<251, 255>>
    /\ f_result.verifier = <<"-", "_", "8">>
    /\ Len(f_result.challenge) = 3

---------------------------------------------------------------------------
(* C31: in every reachable state of the /mcp/sse admissions, closes, peer   *)
(* cancellations and handler failures, the counter activeMcpStreams lies    *)
(* between 0 and MAX_SSE_STREAMS and equals the number of admitted sessions *)
(* that are not closed.                                                     *)
C31_CounterIsOpenSessions ==
    /\ activeMcpStreams \in 0..MAX_SSE_STREAMS
    /\ activeMcpStreams = Cardinality(OpenMcp(streams))

\* a cancellation reaches a session that a handler failure had closed, with
\* the other slot still taken
C31_Witness ==
    /\ sse_obs.kind = "cancel"
    /\ sse_obs.closed
    /\ sse_obs.handler = "throws"
    /\ Len(streams) = MaxConns
    /\ activeMcpStreams = MAX_SSE_STREAMS

(* C32: no heartbeat interval fires on a session that is closed, whatever   *)
(* the order of the close and the steps of the session's setup.             *)
C32_NoTickAfterClose ==
    ~(sse_obs.kind = "tick" /\ sse_obs.closed)

\* the same for the handlers that return their cleanup at once, as the
\* worker's own does
SyncTimersCleared ==
    /\ (sse_obs.kind = "tick" /\ sse_obs.closed) => sse_obs.handler # "sync"
    /\ \A i \in 1..Len(streams) :
           (streams[i].handler = "sync" /\ streams[i].s.closed)
               => streams[i].timer = "cleared"

(* C39: on the error paths of a session the slot is released exactly once:  *)
(* a closed session has run the release callback once and an open one not   *)
(* at all, also when the handler threw during setup (the session is then    *)
(* closed) and when the cleanup threw during the close.                     *)
C39_ReleasedOnceOnErrorPaths ==
    \A i \in 1..Len(streams) :
        /\ streams[i].s.onCloseRuns = (IF streams[i].s.closed THEN 1 ELSE 0)
        /\ (streams[i].handler = "throws" /\ streams[i].pc = "done")
               => streams[i].s.closed
        /\ streams[i].s.cleanupRuns <= 1

\* a session whose handler threw, closed and released, next to a session
\* whose cleanup threw during its close, the release having run
C39_Witness ==
    \E i, j \in 1..Len(streams) :
        /\ streams[i].handler = "throws" /\ streams[i].s.closed
        /\ streams[i].s.onCloseRuns = 1
        /\ streams[j].cleanupThrows /\ streams[j].s.cleanupRuns = 1
        /\ streams[j].s.closed
        /\ streams[j].s.onCloseRuns = 1
        /\ activeMcpStreams = Cardinality(OpenMcp(streams))

---------------------------------------------------------------------------
(* Properties of the authorization flow, SpecOAuth *)

\* the callbacks that went on to the token exchange
OaExchanging ==
    {r \in OaIds : cb_pc[r] \in {"exchange", "write", "answered200", "answered500"}}

(* C33: a token exchange made by /oauth/callback sends the verifier and the *)
(* redirect URI that /oauth/start stored under the presented state, and the *)
(* URL issued for that state carried the challenge of that verifier; a      *)
(* callback whose state was never issued, was consumed before, or was       *)
(* issued 600 s ago or more finds no record and makes no exchange.          *)
C33_ExchangeUsesIssuedVerifier ==
    /\ obs.kind = "exchange" =>
           /\ issued[obs.state].present
           /\ obs.sent.code_verifier = issued[obs.state].stored.codeVerifier
           /\ obs.sent.redirect_uri = issued[obs.state].stored.redirectUri
           /\ issued[obs.state].url.state = obs.state
           /\ issued[obs.state].url.redirect_uri = obs.sent.redirect_uri
           /\ issued[obs.state].url.code_challenge =
                  createCodeChallenge(obs.sent.code_verifier)
    /\ obs.kind = "get" =>
           ((~obs.wasIssued \/ obs.wasConsumed \/ obs.age >= OAUTH_STATE_TTL * 1000)
               => ~obs.found)
    /\ \A r \in OaExchanging : cb_stored[r].stored.present

\* the exchange for the first of two states issued, whose verifiers,
\* challenges and redirect URIs differ, the redirect URI sent not being the
\* one the callback itself was reached at, while the other callback, which
\* presented the same state, was answered 400
C33_Witness ==
    /\ obs.kind = "exchange"
    /\ obs.state = "s1"
    /\ issued["s2"].present
    /\ issued["s2"].stored.codeVerifier # obs.sent.code_verifier
    /\ issued["s2"].url.code_challenge # issued["s1"].url.code_challenge
    /\ issued["s2"].url.redirect_uri # obs.sent.redirect_uri
    /\ obs.sent.redirect_uri # redirectUriOf(Undefined, obs.origin)
    /\ \E q \in OaIds : /\ cb_pc[q] = "answered400"
                        /\ cb_stored[q].state = "s1"

(* C36: a callback that ends in 400 or 500 has written nothing: the user    *)
(* token records and the active user id change only in the writes of a      *)
(* callback whose exchange and profile lookup succeeded, which writes the   *)
(* token record first and the active user id second, then answers 200.      *)
C36_FailedCallbackLeavesCredentials ==
    [][ /\ (<<kvUserToken', kvActiveUser'>> # <<kvUserToken, kvActiveUser>>)
            => \E r \in OaIds : /\ cb_pc[r] = "write"
                                /\ cb_stored[r].record.userId \in Users
                                /\ cb_stored'[r].writes # cb_stored[r].writes
        /\ \A r \in OaIds :
               /\ cb_pc'[r] \in {"answered400", "answered500"}
                      => cb_stored'[r].writes = <<>>
               /\ cb_pc'[r] = "write" => cb_stored'[r].writes \in {<<>>, <<"token">>}
               /\ cb_pc'[r] = "answered200"
                      => cb_stored'[r].writes = <<"token", "active">>
      ]_vars

\* a callback has failed at the profile lookup and left the credentials of
\* the earlier authorization in place, while another has written the token
\* record of a second user and not yet switched the active user
C36_Witness ==
    /\ obs.kind = "exchange" /\ obs.failed
    /\ cb_pc[obs.r] = "answered500"
    /\ kvActiveUser = "uA"
    /\ kvUserToken["uA"].value.accessToken = UserTok("uA", "earlier")
    /\ \E q \in OaIds : /\ cb_pc[q] = "write"
                        /\ cb_stored[q].writes = <<"token">>
                        /\ kvUserToken["uB"].present

---------------------------------------------------------------------------
(* Properties of /api/logs/stream, SpecLogs *)

\* the frames of the entries lo..hi, in order
RECURSIVE LogFrames(_, _)
LogFrames(lo, hi) ==
    IF lo > hi THEN <<>>
    ELSE <<Frame(<<"log">>, JsonValue(<<EntryNames[lo]>>))>> \o LogFrames(lo + 1, hi)

\* how many entries the backlog of a session holds that subscribed after
\* `before` appends
BacklogSize(before) ==
    IF before < RecentLimit /\ before < MAX_LOGS THEN before
    ELSE IF RecentLimit < MAX_LOGS THEN RecentLimit
    ELSE MAX_LOGS

(* C34: the frames of a /api/logs/stream session are one ready event, then  *)
(* the most recent buffered entries (at most the backlog limit) in append   *)
(* order, then every entry appended while the session was open, in append   *)
(* order, each once; a closed session's listener is not registered.         *)
C34_ReadyBacklogThenLive ==
    \A i \in 1..Len(streams) :
        /\ streams[i].pc = "done" =>
               streams[i].s.frames =
                   <<Frame(<<"ready">>, JsonValue(<<"ts">>))>>
                   \o LogFrames(streams[i].before - BacklogSize(streams[i].before) + 1,
                                IF streams[i].s.closed THEN streams[i].until
                                ELSE Appended)
        /\ streams[i].pc = "queued" => streams[i].s.frames = <<>>
        /\ (i \in listeners) <=> (streams[i].pc = "done" /\ ~streams[i].s.closed)

\* a session that subscribed with more entries buffered than the backlog
\* holds, received entries live, and was closed before the last append,
\* beside a session still open
C34_Witness ==
    \E i, j \in 1..Len(streams) :
        /\ streams[i].pc = "done" /\ streams[i].s.closed
        /\ streams[i].before > RecentLimit
        /\ streams[i].until > streams[i].before
        /\ Appended > streams[i].until
        /\ j \in listeners
        /\ Len(streams[j].s.frames) > Len(streams[i].s.frames)

---------------------------------------------------------------------------
(* Properties of the revoke route and the tools, Spec *)

\* a request for a tool that reads the user's credential, with parameters the
\* tool accepts
CredentialRequest(request) ==
    \/ request.tool \in {"fb.me", "fb.page_list"}
    \/ request.tool = "fb.page_post" /\ request.params \in GoodPagePostParams
    \/ request.tool = "fb.debug_token" /\ request.params \in {U, Obj([token |-> U])}

(* C35: while no user is linked (from a completed revoke to the next        *)
(* successful callback) a dispatch of fb.me, fb.page_list, fb.page_post or   *)
(* fb.debug_token without a token of its own is answered with an            *)
(* auth_required error envelope and makes no upstream call, whatever page    *)
(* credentials the store still holds.                                        *)
C35_RevokedMeansAuthRequired ==
    (obs.kind = "dispatch" /\ kvActiveUser = NoUser /\ CredentialRequest(obs.request))
        => /\ resp.kind = "return"
           /\ resp.value.status = "error"
           /\ resp.value.error.code = "auth_required"
           /\ obs.calls = <<>>

\* fb.page_post for a page whose credential is still cached, dispatched after
\* the user was revoked
C35_Witness ==
    /\ obs.kind = "dispatch"
    /\ kvActiveUser = NoUser
    /\ obs.request.tool = "fb.page_post"
    /\ obs.request.params \in GoodPagePostParams
    /\ kvPageToken[obs.request.params.f.page_id.s].present
    /\ \A u \in Users : ~kvUserToken[u].present
    /\ resp.value.error.code = "auth_required"

---------------------------------------------------------------------------
(* Properties of callGraph's log records, SpecGraphLog *)

\* the record carries the target path, the attempt number and the retry
\* decision
FullAttemptRecord(rec, path, k) ==
    /\ {"fb_call", "attempt", "retryable"} \subseteq DOMAIN rec.details
    /\ rec.details.fb_call = path
    /\ rec.details.attempt = k

\* the record holds the access token
HoldsToken(rec, accessToken) ==
    \/ rec.message = accessToken
    \/ rec.details.fb_call = accessToken

(* C37: every attempt callGraph makes, however it ends, emits one log       *)
(* record with the target path, the attempt number and the retry decision,  *)
(* and no record holds the access token.                                    *)
C37_EveryAttemptLogged ==
    f_result.kind = "done" =>
        /\ Len(f_result.logs) = f_result.outcome.attempts
        /\ \A k \in 1..Len(f_result.logs) :
               /\ Len(f_result.logs[k]) = 1
               /\ FullAttemptRecord(f_result.logs[k][1], f_args.path, k)
               /\ ~HoldsToken(f_result.logs[k][1], f_args.accessToken)

\* what the code does keep: an attempt answered with a non-2xx status logs
\* one full record, no attempt logs more than one record, and no record holds
\* the token
FailedResponsesLogged ==
    f_result.kind = "done" =>
        /\ Len(f_result.logs) = f_result.outcome.attempts
        /\ \A k \in 1..Len(f_result.logs) :
               /\ Len(f_result.logs[k]) <= 1
               /\ \A i \in 1..Len(f_result.logs[k]) :
                      ~HoldsToken(f_result.logs[k][i], f_args.accessToken)
               /\ (f_args.script[k].kind = "http" /\ ~ResponseOk(f_args.script[k].status))
                      => /\ Len(f_result.logs[k]) = 1
                         /\ FullAttemptRecord(f_result.logs[k][1], f_args.path, k)

---------------------------------------------------------------------------
(* Properties of dispatchTool's log records, SpecDispatchLog *)

\* the level dispatchTool logs an answer at: ok, domain error, internal error
CompletionLevel(envelope) ==
    IF envelope.status = "ok" THEN "info"
    ELSE IF envelope.error.code = "internal_error" THEN "error"
    ELSE "warn"

(* C38: every invocation of dispatchTool, one that names an unknown tool     *)
(* included, emits at least one log record, which states the completion      *)
(* status of the answer.                                                     *)
C38_EveryDispatchLogged ==
    f_result.kind = "done" =>
        \E i \in 1..Len(f_result.logs) :
            f_result.logs[i].level = CompletionLevel(f_result.envelope)

\* what the code does keep: a dispatch of a registered tool writes exactly
\* one record, at the level of its answer; a ToolError's record names its code
RegisteredDispatchLogged ==
    (f_result.kind = "done" /\ f_args.request.tool \in Registry) =>
        /\ Len(f_result.logs) = 1
        /\ f_result.logs[1].level =
               (IF f_args.ran.kind = "return" THEN "info"
                ELSE IF f_args.ran.value.kind = "ToolError" THEN "warn"
                ELSE "error")
        /\ f_result.logs[1].level = "warn" =>
               f_result.logs[1].details.code = f_result.envelope.error.code

---------------------------------------------------------------------------
(* Properties of the fetch handler, SpecFetch *)

(* C40: the fetch handler answers every request with a Response and lets no *)
(* exception escape, also when a read or write of the KV store fails during *)
(* the settings load or in the route's handler.                             *)
C40_FetchAlwaysResponds ==
    f_result.kind = "done" => f_result.out.kind = "response"

\* what the code does keep: once the settings are loaded every request is
\* answered, a store failure in a route with 500 (POST /mcp with 200 and an
\* error envelope)
LoadedRequestsAnswered ==
    (f_result.kind = "done" /\ (f_args.cacheFresh \/ ~f_args.readFails)) =>
        /\ f_result.out.kind = "response"
        /\ f_result.out.status \in {200, 204, 302, 400, 401, 404, 500}
        /\ (f_args.kvFails /\ f_args.method = "GET" /\ f_args.path = "/oauth/callback")
               => f_result.out.status = 500

=============================================================================
